---------------------------- MODULE Spec2Model ----------------------------
(***************************************************************************)
(* A model of the retrieval-augmented query pipeline of the warehouse      *)
(* assistant: SemanticSearchService (semantic-search.service.ts), the      *)
(* OpenAIService embedding adapter (openai.service.ts), SearchController   *)
(* (search.controller.ts) with its express-validator routes, and the wmlab *)
(* search routes on top of EmbeddingService.searchSimilar.                 *)
(*                                                                         *)
(* Scores are integers in thousandths (0.7 is 700), times are whole days.  *)
(* A JavaScript Date is the record [rep |-> "Date", day |-> d]; the ISO    *)
(* string JSON.stringify turns it into is [rep |-> "String", day |-> d].   *)
(* A value the code reads as falsy/undefined is "" (strings), 0 (numbers)  *)
(* or {} (arrays).                                                         *)
(***************************************************************************)
EXTENDS Integers, Sequences, FiniteSets, TLC

VARIABLES
  searchCache,  \* redis keys "search:<query>:<limit>:<offset>:<filters>" -> stored JSON
  embCache,     \* redis keys "embedding:<md5(text)>": the texts with a cached vector
  relCache,     \* redis keys "search:related:<query>" -> stored list of queries
  searchLogs,   \* table search_logs: the distinct query texts logged so far
  clock,        \* Date.now(), in days
  last,         \* the latest call of the service API and what it did
  http,         \* the latest exchange on POST /api/search or /api/search/answer
  queryRows,    \* wmlab: the rows of prisma.query, in the order of creation
  reply,        \* wmlab: the latest exchange on POST /semantic or /ai
  rerank,       \* rerankResults on its own: its inputs and its runs so far
  calc,         \* a function of the program on its own: its input and its result
  feedbackRows, \* the stored feedback rows, in the order of creation
  hook          \* frontend: the state of one useSearch instance and its requests

vars ==
  <<searchCache, embCache, relCache, searchLogs, clock, last, http,
    queryRows, reply, rerank, calc, feedbackRows, hook>>

serviceVars == <<searchCache, embCache, relCache, searchLogs, clock, last>>
apiVars == <<http>>
wmlabVars == <<queryRows, reply>>
rerankVars == <<rerank>>
restVars == <<calc, feedbackRows, hook>>

----------------------------------------------------------------------------
(* Bounds of the model and constants of the program *)

DEFAULT_LIMIT == 10
DEFAULT_THRESHOLD == 700
maxRetries == 3
MaxHighlights == 3
MaxSuggestions == 5
KeyMaxLen == 200
KeyPrefixLen == 7
TermBoost == 100
RecentBoost == 50
RecentDays == 7
MonthBoost == 20
MonthDays == 30
TitleBoost == 150
ScoreCap == 1000
MinSearchLen == 2
MaxSearchLen == 500
MinAnswerLen == 5
MaxAnswerLen == 1000
ControllerLimit == 10
AnswerLimit == 5
HalfConfidence == 500
AiChunks == 10
HistoryTake == 5
\* the rows of prisma.query the model lets the wmlab routes create
MaxRows == 3
\* the invocations of rerankResults on one input
MaxRuns == 2

----------------------------------------------------------------------------
(* The corpus: chunks, their documents, and the similarity the vector      *)
(* store computes between a query embedding and a chunk embedding.         *)

Chunks == {"c1", "c2", "c3"}

\* the query text the service is called with, and a text that earlier
\* traffic may have left in search_logs
Queries == {"forklift safety"}
EarlierLogged == {"forklift brakes"}

\* a query of 200 characters, within the 500 the search route accepts
LongQuery ==
  "which forklift safety checks does an operator have to complete before the first shift of the day and which of them have to be repeated after the battery of the truck was changed at the charging statio"

\* query.length
QLen(q) ==
  CASE q = "forklift safety" -> 15
    [] q = "dock safety" -> 11
    [] q = "forklift (safety" -> 16
    [] q = "to dock" -> 7
    [] q = "dock" -> 4
    [] q = "a" -> 1
    [] q = LongQuery -> 200
    [] OTHER -> 0

\* query.toLowerCase().split(' ')
QTerms(q) ==
  CASE q = "forklift safety" -> <<"forklift", "safety">>
    [] q = "dock safety" -> <<"dock", "safety">>
    [] q = "forklift (safety" -> <<"forklift", "(safety">>
    [] q = "to dock" -> <<"to", "dock">>
    [] OTHER -> <<q>>

\* similarity(a, b) > 0.3 of pg_trgm, between logged query texts
TrigramSimilar(a, b) == {a, b} = {"forklift safety", "forklift brakes"}

\* term.length
TermLen(t) ==
  CASE t = "forklift" -> 8
    [] t = "dock" -> 4
    [] t = "safety" -> 6
    [] t = "(safety" -> 7
    [] t = "to" -> 2
    [] t = "a" -> 1
    [] OTHER -> 0

Doc(c) ==
  CASE c = "c1" -> "d1"
    [] c = "c2" -> "d2"
    [] OTHER -> "d3"

\* documents.updated_at
DocUpdatedDay(d) ==
  CASE d = "d1" -> 100
    [] d = "d2" -> 60
    [] OTHER -> 96

\* documents.created_at
DocCreatedDay(d) ==
  CASE d = "d1" -> 20
    [] d = "d2" -> 40
    [] OTHER -> 90

DocWarehouse(d) == IF d = "d3" THEN "w2" ELSE "w1"
DocDepartment(d) == IF d = "d1" THEN "dep1" ELSE "dep2"
DocType(d) == IF d = "d2" THEN "docx" ELSE "pdf"
DocLanguage(d) == IF d = "d3" THEN "de" ELSE "en"
DocCategory(d) == IF d = "d1" THEN "Safety" ELSE "Operations"

\* documents.tags
DocTags(d) ==
  CASE d = "d1" -> {"hazmat"}
    [] d = "d2" -> {}
    [] OTHER -> {"forklift"}

\* titleLower.includes(query.toLowerCase())
TitleIncludes(d, q) == d = "d3" /\ q = "forklift safety"

\* chunks.content, as its sentences; a sentence is the set of terms that
\* occur in it as substrings (all the code asks of a sentence)
Sentences(c) ==
  CASE c = "c1" -> <<{"forklift", "safety"}, {"dock"}>>
    [] c = "c2" -> <<{"dock"}, {"dock", "safety"}, {"safety"}, {"safety", "dock"}>>
    [] OTHER -> <<{"forklift"}, {}>>

\* contentLower.includes(term)
ContentIncludes(c, t) == \E i \in 1..Len(Sentences(c)) : t \in Sentences(c)[i]

\* chunks.metadata
ChunkMeta(c) == IF c = "c2" THEN "manual" ELSE "poster"

\* the two- and three-word phrases extractKeyPhrases finds in the content
ChunkPhrases(c) ==
  CASE c = "c1" -> <<"forklift safety", "safety rules">>
    [] c = "c2" -> <<"dock safety", "safety rules", "dock safety">>
    [] OTHER -> <<"forklift safety", "forklift checks">>

\* 1 - (c.embedding <=> queryEmbedding), in thousandths
Sim(q, c) ==
  CASE q = "forklift safety" /\ c = "c1" -> 900
    [] q = "forklift safety" /\ c = "c2" -> 560
    [] q = "forklift safety" /\ c = "c3" -> 760
    [] q = "dock safety" /\ c = "c1" -> 640
    [] q = "dock safety" /\ c = "c2" -> 980
    [] q = "dock safety" /\ c = "c3" -> 300
    [] q = "forklift (safety" /\ c = "c1" -> 880
    [] q = "forklift (safety" /\ c = "c2" -> 520
    [] q = "forklift (safety" /\ c = "c3" -> 740
    [] q = "to dock" /\ c = "c1" -> 430
    [] q = "to dock" /\ c = "c2" -> 810
    [] q = "dock" /\ c = "c2" -> 820
    [] q = "dock" /\ c = "c1" -> 410
    [] OTHER -> 0

----------------------------------------------------------------------------
(* Values *)

NoFilters ==
  [set |-> FALSE, departmentId |-> "", warehouseId |-> "", documentType |-> "",
   language |-> "", dateFrom |-> [rep |-> "none", day |-> 0],
   dateTo |-> [rep |-> "none", day |-> 0], tags |-> {}, categories |-> {}]

DateOf(d) == [rep |-> "Date", day |-> d]

\* Date.prototype.toJSON under JSON.stringify, read back by JSON.parse: a
\* Date comes back as its ISO string
JsonDate(v) == IF v.rep = "Date" THEN [rep |-> "String", day |-> v.day] ELSE v

JsonFilters(f) ==
  [f EXCEPT !.dateFrom = JsonDate(f.dateFrom), !.dateTo = JsonDate(f.dateTo)]

JsonResult(r) == [r EXCEPT !.updatedAt = JsonDate(r.updatedAt)]

\* JSON.parse(JSON.stringify(response)); the response's executionTime is
\* not modelled
JsonResponse(resp) ==
  [resp EXCEPT !.results = [i \in 1..Len(resp.results) |-> JsonResult(resp.results[i])],
               !.filters = JsonFilters(resp.filters)]

NoResponse ==
  [query |-> "", results |-> <<>>, totalCount |-> 0, filters |-> NoFilters,
   suggestions |-> <<>>]

\* no exchange yet on the routes of search.routes.ts
NoHttp ==
  [route |-> "none", query |-> "", includeAnswer |-> FALSE, context |-> FALSE,
   stream |-> FALSE, status |-> 0, hit |-> FALSE, results |-> <<>>,
   answered |-> FALSE, confidence |-> 0, frames |-> <<>>, events |-> <<>>]

\* a response without a confidence
NoConfidence == [nan |-> FALSE, value |-> 0]

\* no exchange yet on the wmlab routes
NoReply ==
  [route |-> "none", query |-> "", status |-> 0, results |-> <<>>,
   limit |-> 0, warehouseId |-> "", confidence |-> NoConfidence,
   history |-> <<>>, failed |-> {}, rowId |-> 0]

\* rerankResults not yet given its inputs
NoRerank == [query |-> "", raw |-> <<>>, runs |-> <<>>]

\* no function applied on its own
NoCalc == [fn |-> "none"]

\* searchOptions.limit of a fresh useSearch
PageLimit == 20

\* useSearch after its first render: the state, the search options, the
\* abort controller of the ref (the request it belongs to, 0 for null) and
\* the requests sent so far
NoHook ==
  [query |-> "", results |-> <<>>, aiAnswer |-> "", isLoading |-> FALSE, error |-> "",
   totalCount |-> 0, hasMore |-> FALSE, limit |-> PageLimit, offset |-> 0,
   includeAnswer |-> TRUE, controller |-> 0, requests |-> <<>>]

----------------------------------------------------------------------------
(* Sequences *)

RECURSIVE SeqFilter(_, _)
\* Array.prototype.filter, Keep(x) a set of kept values
SeqFilter(s, keep) ==
  IF s = <<>> THEN <<>>
  ELSE IF Head(s) \in keep THEN <<Head(s)>> \o SeqFilter(Tail(s), keep)
  ELSE SeqFilter(Tail(s), keep)

Take(s, n) == SubSeq(s, 1, IF n < Len(s) THEN n ELSE Len(s))
Drop(s, n) == SubSeq(s, (IF n < Len(s) THEN n ELSE Len(s)) + 1, Len(s))

RECURSIVE Dedup(_)
\* [...new Set(array)]: first occurrences, in order
Dedup(s) ==
  IF s = <<>> THEN <<>>
  ELSE LET rest == Dedup(SubSeq(s, 1, Len(s) - 1))
           x == s[Len(s)]
       IN IF \E i \in 1..Len(rest) : rest[i] = x THEN rest ELSE Append(rest, x)

RECURSIVE InsertByScore(_, _)
\* x goes behind every element whose score is not smaller (a stable sort)
InsertByScore(sorted, x) ==
  IF sorted = <<>> THEN <<x>>
  ELSE IF Head(sorted).score >= x.score
       THEN <<Head(sorted)>> \o InsertByScore(Tail(sorted), x)
       ELSE <<x>> \o sorted

RECURSIVE SortByScoreDesc(_)
\* array.sort((a, b) => b.score - a.score), which is stable
SortByScoreDesc(s) ==
  IF s = <<>> THEN <<>>
  ELSE InsertByScore(SortByScoreDesc(SubSeq(s, 1, Len(s) - 1)), s[Len(s)])

RECURSIVE SetToSortedSeq(_, _)
\* ORDER BY similarity_score DESC over a set of chunks (the corpus has no
\* two chunks with the same similarity to one query)
SetToSortedSeq(S, q) ==
  IF S = {} THEN <<>>
  ELSE LET best == CHOOSE c \in S : \A d \in S : Sim(q, c) >= Sim(q, d)
       IN <<best>> \o SetToSortedSeq(S \ {best}, q)

----------------------------------------------------------------------------
(* The environment of one call: the remote operation that fails during it, *)
(* if one does, and how often the embedding provider fails before it       *)
(* answers (maxRetries + 1 failures exhaust pRetry).                       *)

RedisOps ==
  {"redis.get search", "redis.set search", "redis.get embedding",
   "redis.incrby cost", "redis.set embedding", "redis.get related",
   "redis.set related"}

DbOps == {"db.vector", "db.related", "db.insert search_logs"}

FaultOps == RedisOps \cup DbOps

Envs ==
  {[fail |-> {}, embFails |-> n] : n \in {0, 1, maxRetries + 1}}
    \cup {[fail |-> {op}, embFails |-> 0] : op \in FaultOps}

\* the environment in which nothing fails
CalmEnv == [fail |-> {}, embFails |-> 0]

----------------------------------------------------------------------------
(* OpenAIService.generateEmbedding *)

\* the provider answers on attempt embFails + 1, if pRetry gets that far
ProviderAnswers(env) == env.embFails <= maxRetries

\* generateEmbedding had it answered a provider outage with a vector instead
\* of throwing
GenerateEmbeddingZeroVector(text, env, cached) ==
  [ok |-> "redis.get embedding" \notin env.fail,
   events |-> IF "redis.get embedding" \in env.fail \/ text \in cached
              THEN <<"redis.get embedding">>
              ELSE <<"redis.get embedding", "openai.embeddings">>,
   embCache |-> cached,
   attempts |-> IF "redis.get embedding" \in env.fail \/ text \in cached THEN 0
                ELSE IF ProviderAnswers(env) THEN env.embFails + 1
                ELSE maxRetries + 1]

GenerateEmbedding(text, env, cached) ==
  LET get == <<"redis.get embedding">>
      remote == get \o <<"openai.embeddings">>
      attempts == IF ProviderAnswers(env) THEN env.embFails + 1 ELSE maxRetries + 1
  IN IF "redis.get embedding" \in env.fail
     THEN [ok |-> FALSE, events |-> get, embCache |-> cached, attempts |-> 0]
     ELSE IF text \in cached
     THEN [ok |-> TRUE, events |-> get, embCache |-> cached, attempts |-> 0]
     ELSE IF ~ProviderAnswers(env)
     THEN [ok |-> FALSE, events |-> remote, embCache |-> cached, attempts |-> attempts]
     ELSE IF "redis.incrby cost" \in env.fail
     THEN [ok |-> FALSE, events |-> remote \o <<"redis.incrby cost">>,
           embCache |-> cached, attempts |-> attempts]
     ELSE IF "redis.set embedding" \in env.fail
     THEN [ok |-> FALSE,
           events |-> remote \o <<"redis.incrby cost", "redis.set embedding">>,
           embCache |-> cached, attempts |-> attempts]
     ELSE [ok |-> TRUE,
           events |-> remote \o <<"redis.incrby cost", "redis.set embedding">>,
           embCache |-> cached \cup {text}, attempts |-> attempts]

----------------------------------------------------------------------------
(* SemanticSearchService *)

\* the WHERE clause executeVectorSearch builds from the filters
MatchesFilters(c, f) ==
  LET d == Doc(c)
  IN f.set =>
       /\ (f.departmentId # "" => DocDepartment(d) = f.departmentId)
       /\ (f.warehouseId # "" => DocWarehouse(d) = f.warehouseId)
       /\ (f.documentType # "" => DocType(d) = f.documentType)
       /\ (f.language # "" => DocLanguage(d) = f.language)
       /\ (f.dateFrom.rep # "none" => DocCreatedDay(d) >= f.dateFrom.day)
       /\ (f.dateTo.rep # "none" => DocCreatedDay(d) <= f.dateTo.day)
       /\ (f.categories # {} => DocCategory(d) \in f.categories)

Row(q, c) ==
  [id |-> c, score |-> Sim(q, c), documentId |-> Doc(c),
   updatedAt |-> DateOf(DocUpdatedDay(Doc(c))), metadata |-> ChunkMeta(c),
   highlights |-> <<>>]

ExecuteVectorSearch(q, limit, offset, threshold, filters, env) ==
  LET matching == {c \in Chunks : MatchesFilters(c, filters) /\ Sim(q, c) > threshold}
      ordered == SetToSortedSeq(matching, q)
      page == Take(Drop(ordered, offset), limit)
  IN IF "db.vector" \in env.fail
     THEN [ok |-> FALSE, rows |-> <<>>]
     ELSE [ok |-> TRUE, rows |-> [i \in 1..Len(page) |-> Row(q, page[i])]]

Min(a, b) == IF a < b THEN a ELSE b

\* the score rerankResults gives one result at time now
AdjustedScore(q, r, now) ==
  LET terms == QTerms(q)
      termMatches == Cardinality({i \in 1..Len(terms) : ContentIncludes(r.id, terms[i])})
      daysOld == now - r.updatedAt.day
      recency == IF daysOld < RecentDays THEN RecentBoost
                 ELSE IF daysOld < MonthDays THEN MonthBoost ELSE 0
      title == IF TitleIncludes(r.documentId, q) THEN TitleBoost ELSE 0
  IN Min(r.score + (termMatches * TermBoost) \div Len(terms) + recency + title, ScoreCap)

RerankResults(q, results, now) ==
  SortByScoreDesc([i \in 1..Len(results) |->
                     [results[i] EXCEPT !.score = AdjustedScore(q, results[i], now)]])

\* the indexes of the sentences addHighlights keeps for one result
HighlightsOf(q, c) ==
  LET terms == QTerms(q)
      long == {terms[i] : i \in {j \in 1..Len(terms) : TermLen(terms[j]) > 2}}
      sentences == Sentences(c)
      matching == {i \in 1..Len(sentences) : sentences[i] \cap long # {}}
  IN Take(SeqFilter([i \in 1..Len(sentences) |-> i], matching), MaxHighlights)

\* new RegExp(`(${term})`, 'gi') is a pattern: an unbalanced parenthesis in
\* the term is a SyntaxError
RegExpValid(t) == t # "(safety"

\* addHighlights throws: some sentence of some result matches a term, and
\* the patterns of all the terms longer than two characters are then built
HighlightsThrow(q, results) ==
  LET terms == QTerms(q)
      long == {terms[i] : i \in {j \in 1..Len(terms) : TermLen(terms[j]) > 2}}
  IN /\ \E t \in long : ~RegExpValid(t)
     /\ \E i \in 1..Len(results) :
          \E k \in 1..Len(Sentences(results[i].id)) :
            Sentences(results[i].id)[k] \cap long # {}

AddHighlights(q, results) ==
  [i \in 1..Len(results) |-> [results[i] EXCEPT !.highlights = HighlightsOf(q, results[i].id)]]

RECURSIVE Flatten(_)
Flatten(ss) == IF ss = <<>> THEN <<>> ELSE Head(ss) \o Flatten(Tail(ss))

Count(s, x) == Cardinality({i \in 1..Len(s) : s[i] = x})

ExtractKeyPhrases(results) ==
  LET phrases == Flatten([i \in 1..Len(results) |-> ChunkPhrases(results[i].id)])
      distinct == Dedup(phrases)
      counted == [i \in 1..Len(distinct) |->
                    [phrase |-> distinct[i], score |-> Count(phrases, distinct[i])]]
      top == Take(SortByScoreDesc(counted), 5)
  IN [i \in 1..Len(top) |-> top[i].phrase]

\* SELECT DISTINCT query FROM search_logs WHERE query != q AND similar
SimilarLogged(q, logs) ==
  LET S == {x \in logs : x # q /\ TrigramSimilar(x, q)}
  IN IF S = {} THEN <<>> ELSE <<CHOOSE x \in S : TRUE>>

GetRelatedQueries(q, env, related, logs) ==
  LET get == <<"redis.get related">>
      queries == SimilarLogged(q, logs)
  IN IF "redis.get related" \in env.fail
     THEN [queries |-> <<>>, events |-> get, relCache |-> related]
     ELSE IF q \in DOMAIN related
     THEN [queries |-> related[q], events |-> get, relCache |-> related]
     ELSE IF "db.related" \in env.fail
     THEN [queries |-> <<>>, events |-> get \o <<"db.related">>, relCache |-> related]
     ELSE IF "redis.set related" \in env.fail
     THEN [queries |-> <<>>, events |-> get \o <<"db.related", "redis.set related">>,
           relCache |-> related]
     ELSE [queries |-> queries, events |-> get \o <<"db.related", "redis.set related">>,
           relCache |-> (q :> queries) @@ related]

GenerateSuggestions(q, results, env, related, logs) ==
  LET rel == GetRelatedQueries(q, env, related, logs)
      keyPhrases == ExtractKeyPhrases(Take(results, 3))
      combined == Dedup(rel.queries \o keyPhrases)
      others == {combined[i] : i \in 1..Len(combined)} \ {q}
  IN [suggestions |-> Take(SeqFilter(combined, others), MaxSuggestions),
      events |-> rel.events, relCache |-> rel.relCache]

\* JSON.stringify(options.filters), or '' without filters
FiltersKey(f) == IF f.set THEN JsonFilters(f) ELSE NoFilters

\* `search:${query}:${limit}:${offset}:${filters}`.substring(0, 200): a query
\* that fills the 200 characters leaves none for the rest of the key
GetCacheKey(q, opts) ==
  IF KeyPrefixLen + QLen(q) >= KeyMaxLen
  THEN [query |-> q, rest |-> <<>>]
  ELSE [query |-> q, rest |-> <<opts.limit, opts.offset, FiltersKey(opts.filters)>>]

\* search with the vector query sent before the embedding is awaited
WorkRetrievingFirst(lookup, embed, ranking, suggest) ==
  lookup \o <<"db.vector">> \o embed \o ranking \o suggest

\* the operations of a search that misses the cache, up to the suggestions,
\* in the order of its awaits
Work(lookup, embed, ranking, suggest) ==
  lookup \o embed \o <<"db.vector">> \o ranking \o suggest

\* search(query, options) in the state st = [searchCache, embCache, relCache,
\* searchLogs] at time now: what it returns or throws, the remote operations
\* it performs in order, and the state it leaves
SearchRun(q, opts, env, now, st) ==
  LET limit == IF opts.limit # 0 THEN opts.limit ELSE DEFAULT_LIMIT
      threshold == IF opts.threshold # 0 THEN opts.threshold ELSE DEFAULT_THRESHOLD
      key == GetCacheKey(q, opts)
      lookup == <<"redis.get search">>
      hit == "redis.get search" \notin env.fail /\ key \in DOMAIN st.searchCache
      emb == GenerateEmbedding(q, env, st.embCache)
      vec == ExecuteVectorSearch(q, limit, opts.offset, threshold, opts.filters, env)
      ranked == IF opts.rerank /\ Len(vec.rows) > 0
                THEN RerankResults(q, vec.rows, now) ELSE vec.rows
      ranking == (IF opts.rerank /\ Len(vec.rows) > 0 THEN <<"rerankResults">> ELSE <<>>)
                   \o <<"addHighlights">>
      final == AddHighlights(q, ranked)
      sug == GenerateSuggestions(q, final, env, st.relCache, st.searchLogs)
      work == Work(lookup, emb.events, ranking, sug.events)
      response == [query |-> q, results |-> final, totalCount |-> Len(final),
                   filters |-> opts.filters, suggestions |-> sug.suggestions]
      stored == IF "redis.set search" \in env.fail THEN st.searchCache
                ELSE (key :> JsonResponse(response)) @@ st.searchCache
      logged == IF "db.insert search_logs" \in env.fail THEN st.searchLogs
                ELSE st.searchLogs \cup {q}
  IN IF hit
     THEN [outcome |-> "ok", hit |-> TRUE, resp |-> st.searchCache[key],
           events |-> lookup, attempts |-> 0, searchCache |-> st.searchCache,
           embCache |-> st.embCache, relCache |-> st.relCache,
           searchLogs |-> st.searchLogs]
     ELSE IF ~emb.ok
     THEN [outcome |-> "error", hit |-> FALSE, resp |-> NoResponse,
           events |-> lookup \o emb.events, attempts |-> emb.attempts,
           searchCache |-> st.searchCache, embCache |-> emb.embCache,
           relCache |-> st.relCache, searchLogs |-> st.searchLogs]
     ELSE IF ~vec.ok
     THEN [outcome |-> "error", hit |-> FALSE, resp |-> NoResponse,
           events |-> lookup \o emb.events \o <<"db.vector">>, attempts |-> emb.attempts,
           searchCache |-> st.searchCache, embCache |-> emb.embCache,
           relCache |-> st.relCache, searchLogs |-> st.searchLogs]
     ELSE IF HighlightsThrow(q, ranked)
     THEN [outcome |-> "error", hit |-> FALSE, resp |-> NoResponse,
           events |-> lookup \o emb.events \o <<"db.vector">> \o ranking,
           attempts |-> emb.attempts,
           searchCache |-> st.searchCache, embCache |-> emb.embCache,
           relCache |-> st.relCache, searchLogs |-> st.searchLogs]
     ELSE [outcome |-> "ok", hit |-> FALSE, resp |-> response,
           events |-> work \o <<"redis.set search", "db.insert search_logs">>,
           attempts |-> emb.attempts, searchCache |-> stored,
           embCache |-> emb.embCache, relCache |-> sug.relCache,
           searchLogs |-> logged]

\* the tail of multiModalSearch had it left totalCount as search computed it
FilterByMetadataStaleCount(run, metadata) ==
  LET results == run.resp.results
      kept == {results[i] : i \in {j \in 1..Len(results) : results[j].metadata = metadata}}
  IN IF run.outcome = "ok" /\ metadata # "" /\ Len(results) > 0
     THEN [run EXCEPT !.resp.results = SeqFilter(results, kept)]
     ELSE run

\* the tail of multiModalSearch: the results whose metadata match, and
\* their number as totalCount
FilterByMetadata(run, metadata) ==
  LET results == run.resp.results
      kept == {results[i] : i \in {j \in 1..Len(results) : results[j].metadata = metadata}}
      filtered == SeqFilter(results, kept)
  IN IF run.outcome = "ok" /\ metadata # "" /\ Len(results) > 0
     THEN [run EXCEPT !.resp.results = filtered, !.resp.totalCount = Len(filtered)]
     ELSE run

\* multiModalSearch(query, undefined, metadata, options): the search, then
\* the filter on metadata
MultiModalRun(q, metadata, opts, env, now, st) ==
  FilterByMetadata(SearchRun(q, opts, env, now, st), metadata)

----------------------------------------------------------------------------
(* The service API under a sequence of calls *)

\* the instants at which calls are made, in days: more than a week apart
Instants == <<103, 113>>

WarehouseSince ==
  [NoFilters EXCEPT !.set = TRUE, !.warehouseId = "w1", !.dateFrom = DateOf(30)]

FilterChoices == {NoFilters, WarehouseSince}

Options ==
  [limit : {0}, offset : {0}, threshold : {0, 500},
   filters : {NoFilters}, rerank : BOOLEAN]

NoOptions ==
  [limit |-> 0, offset |-> 0, threshold |-> 0, filters |-> NoFilters, rerank |-> FALSE]

NoCall ==
  [api |-> "none", query |-> "", options |-> NoOptions, metadata |-> "",
   failed |-> {}, at |-> 0,
   outcome |-> "none", hit |-> FALSE, resp |-> NoResponse, events |-> <<>>,
   attempts |-> 0, fresh |-> FALSE]

State == [searchCache |-> searchCache, embCache |-> embCache,
          relCache |-> relCache, searchLogs |-> searchLogs]

Now == Instants[clock]

\* the operations that failed during a run
Failed(env, run) ==
  (env.fail \cap {run.events[i] : i \in 1..Len(run.events)})
    \cup (IF run.attempts > 0 /\ ~ProviderAnswers(env) THEN {"openai.embeddings"} ELSE {})

Commit(api, q, opts, metadata, env, run) ==
  /\ searchCache' = run.searchCache
  /\ embCache' = run.embCache
  /\ relCache' = run.relCache
  /\ searchLogs' = run.searchLogs
  /\ last' = [api |-> api, query |-> q, options |-> opts, metadata |-> metadata,
              failed |-> Failed(env, run), at |-> Now, outcome |-> run.outcome, hit |-> run.hit,
              resp |-> run.resp, events |-> run.events, attempts |-> run.attempts,
              fresh |-> TRUE]
  /\ UNCHANGED <<clock, apiVars, wmlabVars, rerankVars, restVars>>

\* the other layers of the program at rest
InitApi == http = NoHttp
InitWmlab == queryRows = <<>> /\ reply = NoReply
InitRerank == rerank = NoRerank
InitRest == calc = NoCalc /\ feedbackRows = <<>> /\ hook = NoHook

Init ==
  /\ searchCache = <<>>
  /\ embCache = {}
  /\ relCache = <<>>
  /\ searchLogs \in SUBSET EarlierLogged
  /\ clock = 1
  /\ last = NoCall
  /\ InitApi /\ InitWmlab /\ InitRerank /\ InitRest

\* SemanticSearchService.search(query, options)
Search(q, opts, env) ==
  Commit("search", q, opts, "", env, SearchRun(q, opts, env, Now, State))

\* SemanticSearchService.multiModalSearch(query, undefined, metadata, options)
MultiModalSearch(q, metadata, opts, env) ==
  Commit("multiModal", q, opts, metadata, env,
         MultiModalRun(q, metadata, opts, env, Now, State))

\* SemanticSearchService.clearCache(): redis.keys('search:*') and redis.del,
\* a failure of which is logged and dropped
ClearCache(ok) ==
  /\ searchCache' = IF ok THEN <<>> ELSE searchCache
  /\ relCache' = IF ok THEN <<>> ELSE relCache
  /\ last' = [last EXCEPT !.fresh = FALSE]
  /\ UNCHANGED <<embCache, searchLogs, clock, apiVars, wmlabVars, rerankVars, restVars>>

Without(f, k) == [x \in DOMAIN f \ {k} |-> f[x]]

\* redis drops a key whose EX time has run out
Expire ==
  /\ \/ \E k \in DOMAIN searchCache :
          /\ searchCache' = Without(searchCache, k)
          /\ UNCHANGED <<relCache, embCache>>
     \/ \E k \in DOMAIN relCache :
          /\ relCache' = Without(relCache, k)
          /\ UNCHANGED <<searchCache, embCache>>
     \/ \E t \in embCache :
          /\ embCache' = embCache \ {t}
          /\ UNCHANGED <<searchCache, relCache>>
  /\ last' = [last EXCEPT !.fresh = FALSE]
  /\ UNCHANGED <<searchLogs, clock, apiVars, wmlabVars, rerankVars, restVars>>

\* days pass: every key of the cache store has run out by the next instant
Tick ==
  /\ clock < Len(Instants)
  /\ clock' = clock + 1
  /\ searchCache' = <<>>
  /\ relCache' = <<>>
  /\ embCache' = {}
  /\ last' = [last EXCEPT !.fresh = FALSE]
  /\ UNCHANGED <<searchLogs, apiVars, wmlabVars, rerankVars, restVars>>

Next ==
  \/ \E q \in Queries, opts \in Options, env \in Envs : Search(q, opts, env)
  \/ \E q \in Queries, metadata \in {"manual"}, opts \in Options, env \in Envs :
       MultiModalSearch(q, metadata, opts, env)
  \/ \E ok \in BOOLEAN : ClearCache(ok)
  \/ Expire
  \/ Tick

Spec == Init /\ [][Next]_vars

----------------------------------------------------------------------------
(* Properties of the service API *)

\* the requests a run sent to the embedding provider (the attempts pRetry
\* makes for one request count once)
EmbeddingRequests(events) ==
  Cardinality({i \in 1..Len(events) : events[i] = "openai.embeddings"})

\* the call in `last` is followed, with nothing expired in between and the
\* cache store answering, by a search for the same query, limit, offset and
\* filters
RepeatedSearch ==
  /\ last.api = "search" /\ last'.api = "search"
  /\ last.fresh /\ last'.fresh
  /\ last.outcome = "ok" /\ last'.outcome = "ok"
  /\ last.failed = {} /\ last'.failed = {}
  /\ last'.query = last.query
  /\ last'.options.limit = last.options.limit
  /\ last'.options.offset = last.options.offset
  /\ last'.options.filters = last.options.filters

\* C1: two searches for the same (query, limit, offset, filters) within the
\* cache TTL, the cache store working, return identical responses, and the
\* embedding provider is asked at most once over the two calls.
CacheIdempotence ==
  [][RepeatedSearch =>
       /\ last'.resp = last.resp
       /\ EmbeddingRequests(last.events) + EmbeddingRequests(last'.events) <= 1]_vars

\* C4: when the embedding provider fails for good (pRetry's attempts used up)
\* the search fails as a whole: it returns no response, neither an empty nor
\* a partial one.
EmbeddingOutageFailsSearch ==
  "openai.embeddings" \in last.failed =>
     last.outcome = "error" /\ last.resp = NoResponse

EmbeddingOutageSeen ==
  /\ last.api = "search"
  /\ "openai.embeddings" \in last.failed
  /\ last.attempts = maxRetries + 1
  /\ last.outcome = "error"

\* what the call in `last` returns from an empty cache store when nothing fails
FromEmptyCache ==
  LET st == [searchCache |-> <<>>, embCache |-> {}, relCache |-> <<>>,
             searchLogs |-> searchLogs]
  IN IF last.api = "multiModal"
     THEN MultiModalRun(last.query, last.metadata, last.options, CalmEnv, last.at, st).resp
     ELSE SearchRun(last.query, last.options, CalmEnv, last.at, st).resp

\* C5: a failing operation of the cache store (search-result, related-query
\* or embedding cache) is never propagated: the call succeeds with the
\* result it gives from an empty cache.
CacheFailureNotPropagated ==
  (last.api # "none" /\ last.failed # {} /\ last.failed \subseteq RedisOps) =>
     last.outcome = "ok" /\ last.resp = FromEmptyCache

\* C8: at offset 0 the response's totalCount is the length of its results,
\* for search and for multiModalSearch after its filter on metadata.
TotalCountIsLength ==
  (last.outcome = "ok" /\ last.options.offset = 0) =>
     last.resp.totalCount = Len(last.resp.results)

\* multiModalSearch dropped results of the search and returned the rest
TotalCountAfterFilterSeen ==
  /\ last.api = "multiModal" /\ last.outcome = "ok" /\ last.options.offset = 0
  /\ last.metadata = "manual"
  /\ Len(last.resp.results) = 1
  /\ last.resp.results[1].metadata = "manual"
  /\ last.resp.totalCount = 1
  /\ ~last.hit

\* C9: every result's score lies in [t, 1.0], t the threshold in effect
\* for the call, and the results are in non-increasing order of score,
\* reranked or not.
ScoresBoundedAndSorted ==
  last.outcome = "ok" =>
    LET rs == last.resp.results
        t == IF last.options.threshold # 0 THEN last.options.threshold
             ELSE DEFAULT_THRESHOLD
    IN /\ \A i \in 1..Len(rs) : t <= rs[i].score /\ rs[i].score <= ScoreCap
       /\ \A i, j \in 1..Len(rs) : i < j => rs[i].score >= rs[j].score

----------------------------------------------------------------------------
(* search.routes.ts and SearchController: POST /api/search and             *)
(* POST /api/search/answer                                                 *)

\* the query texts of the requests
RequestTexts == {"a", "dock", "forklift safety"}

\* body('query').notEmpty().trim().isLength({min: 2, max: 500}) of POST /
SearchQueryValid(q) ==
  QLen(q) > 0 /\ MinSearchLen <= QLen(q) /\ QLen(q) <= MaxSearchLen

\* body('query').notEmpty().trim().isLength({min: 5, max: 1000}) of POST /answer
AnswerQueryValid(q) ==
  QLen(q) > 0 /\ MinAnswerLen <= QLen(q) /\ QLen(q) <= MaxAnswerLen

\* what a request may meet: nothing failing, the completion provider down,
\* the embedding provider down, the vector store down
ApiEnvs ==
  {CalmEnv, [fail |-> {"openai.chat"}, embFails |-> 0],
   [fail |-> {}, embFails |-> maxRetries + 1], [fail |-> {"db.vector"}, embFails |-> 0]}

\* the features of a completion calculateConfidence looks at
AnswerShapes == {{"grounded"}, {"short", "hedged"}}

\* OpenAIService.generateCompletion: the request under pRetry, then trackUsage
GenerateCompletion(env) ==
  IF "openai.chat" \in env.fail
  THEN [ok |-> FALSE, events |-> <<"openai.chat">>]
  ELSE [ok |-> "redis.incrby cost" \notin env.fail,
        events |-> <<"openai.chat", "redis.incrby cost">>]

RECURSIVE SumScores(_)
SumScores(rs) == IF rs = <<>> THEN 0 ELSE Head(rs).score + SumScores(Tail(rs))

Max(a, b) == IF a > b THEN a ELSE b

\* SearchController.calculateConfidence, in thousandths
CalculateConfidence(shape, sources) ==
  LET base == IF Len(sources) > 0 THEN SumScores(sources) \div Len(sources)
              ELSE HalfConfidence
      short == IF "short" \in shape THEN (base * 8) \div 10 ELSE base
      hedged == IF "hedged" \in shape THEN (short * 7) \div 10 ELSE short
      grounded == IF "grounded" \in shape THEN (hedged * 11) \div 10 ELSE hedged
  IN Min(Max(grounded, 0), ScoreCap)

\* the options SearchController.search passes to the service
ControllerOptions(body) ==
  [limit |-> IF body.limit # 0 THEN body.limit ELSE ControllerLimit,
   offset |-> body.offset, threshold |-> 0, filters |-> body.filters,
   rerank |-> TRUE]

\* the options generateAIAnswer passes to the service
AnswerOptions ==
  [limit |-> AnswerLimit, offset |-> 0, threshold |-> 0, filters |-> NoFilters,
   rerank |-> TRUE]

\* SearchController.search once the service has returned or thrown: the
\* private generateAnswer (null when the completion fails), then res.json
SearchReply(body, env, run, comp) ==
  LET wanted == body.includeAnswer /\ Len(run.resp.results) > 0
  IN IF run.outcome = "error"
     THEN [NoHttp EXCEPT !.route = "search", !.query = body.query,
                         !.includeAnswer = body.includeAnswer,
                         !.status = 500, !.events = run.events]
     ELSE [NoHttp EXCEPT !.route = "search", !.query = body.query,
                         !.includeAnswer = body.includeAnswer,
                         !.status = 200, !.hit = run.hit,
                         !.results = run.resp.results,
                         !.answered = wanted /\ comp.ok,
                         !.events = IF wanted THEN run.events \o comp.events
                                    ELSE run.events]

\* the state the service is left in by a run
Leave(run) ==
  /\ searchCache' = run.searchCache
  /\ embCache' = run.embCache
  /\ relCache' = run.relCache
  /\ searchLogs' = run.searchLogs

\* POST /api/search: the validators, then SearchController.search
HttpSearch(body, env) ==
  /\ IF ~SearchQueryValid(body.query)
     THEN /\ http' = [NoHttp EXCEPT !.route = "search", !.query = body.query,
                                    !.includeAnswer = body.includeAnswer,
                                    !.status = 400]
          /\ UNCHANGED <<searchCache, embCache, relCache, searchLogs>>
     ELSE /\ http' = SearchReply(body, env,
                       SearchRun(body.query, ControllerOptions(body), env, Now, State),
                       GenerateCompletion(env))
          /\ Leave(SearchRun(body.query, ControllerOptions(body), env, Now, State))
  /\ UNCHANGED <<clock, last, wmlabVars, rerankVars, restVars>>

\* the run of a request that brings its own context: no search is made
NoRun ==
  [outcome |-> "ok", hit |-> FALSE, resp |-> NoResponse, events |-> <<>>,
   attempts |-> 0, searchCache |-> searchCache, embCache |-> embCache,
   relCache |-> relCache, searchLogs |-> searchLogs]

\* generateAIAnswer once the context is there: a streamed completion written
\* as frames and closed by [DONE], or a completion with its confidence and
\* the related questions (a second completion, [] when it fails)
AnswerReply(body, env, shape, run, comp) ==
  LET base == [NoHttp EXCEPT !.route = "answer", !.query = body.query,
                             !.context = body.context, !.stream = body.stream,
                             !.hit = run.hit]
      related == IF "openai.chat related" \in env.fail THEN <<"openai.chat">>
                 ELSE <<"openai.chat", "redis.incrby cost">>
  IN IF run.outcome = "error"
     THEN [base EXCEPT !.status = 500, !.events = run.events]
     ELSE IF body.stream
     THEN [base EXCEPT !.status = 200, !.results = run.resp.results,
                       !.answered = "openai.chat" \notin env.fail,
                       !.frames = IF "openai.chat" \in env.fail THEN <<>>
                                  ELSE <<"content", "[DONE]">>,
                       !.events = run.events \o <<"openai.chat stream">>]
     ELSE IF ~comp.ok
     THEN [base EXCEPT !.status = 500, !.events = run.events \o comp.events]
     ELSE [base EXCEPT !.status = 200, !.results = run.resp.results,
                       !.answered = TRUE,
                       !.confidence = CalculateConfidence(shape, run.resp.results),
                       !.events = run.events \o comp.events \o related]

\* POST /api/search/answer: SearchController.generateAIAnswer, which does not
\* look at what the validators of the route found
HttpAnswer(body, env, shape) ==
  /\ IF body.context
     THEN /\ http' = AnswerReply(body, env, shape, NoRun, GenerateCompletion(env))
          /\ UNCHANGED <<searchCache, embCache, relCache, searchLogs>>
     ELSE /\ http' = AnswerReply(body, env, shape,
                       SearchRun(body.query, AnswerOptions, env, Now, State),
                       GenerateCompletion(env))
          /\ Leave(SearchRun(body.query, AnswerOptions, env, Now, State))
  /\ UNCHANGED <<clock, last, wmlabVars, rerankVars, restVars>>

SearchBodies ==
  [query : RequestTexts, includeAnswer : BOOLEAN, limit : {0}, offset : {0},
   filters : {NoFilters}]

AnswerBodies == [query : RequestTexts, context : BOOLEAN, stream : BOOLEAN]

\* redis drops the keys whose EX time has run out
ExpireAll ==
  /\ searchCache # <<>> \/ relCache # <<>> \/ embCache # {}
  /\ searchCache' = <<>>
  /\ relCache' = <<>>
  /\ embCache' = {}
  /\ UNCHANGED <<searchLogs, clock, last, apiVars, wmlabVars, rerankVars, restVars>>

NextApi ==
  \/ \E body \in SearchBodies, env \in ApiEnvs : HttpSearch(body, env)
  \/ \E body \in AnswerBodies, env \in ApiEnvs, shape \in AnswerShapes :
       HttpAnswer(body, env, shape)
  \/ ExpireAll

\* the routes start on a search_logs table without rows
InitRoutes == Init /\ searchLogs = {}

SpecApi == InitRoutes /\ [][NextApi]_vars

----------------------------------------------------------------------------
(* Properties of the routes *)

RemoteCalls == {"openai.embeddings", "db.vector", "openai.chat", "openai.chat stream"}

EventSet(events) == {events[i] : i \in 1..Len(events)}

\* C2: a search request whose cache key is in the search cache is answered
\* from the cached response with no call to the embedding provider, the
\* vector store or the completion provider, includeAnswer = true included.
CacheHitCallsNoProvider ==
  (http.route = "search" /\ http.hit) => EventSet(http.events) \cap RemoteCalls = {}

\* the query's length is in the range the route allows
LengthAllowed(route, q) ==
  IF route = "search" THEN SearchQueryValid(q) ELSE AnswerQueryValid(q)

\* C3: a search request whose query is empty or not 2 to 500 characters
\* long, and an answer request whose query is not 5 to 1000 characters long,
\* is rejected with a validation error before any remote call (cache,
\* embedding, vector store, completion) is made.
InvalidQueryRejectedFirst ==
  (http.route # "none" /\ ~LengthAllowed(http.route, http.query)) =>
     http.status = 400 /\ http.events = <<>>

----------------------------------------------------------------------------
(* wmlab: routes/search.ts (POST /semantic, POST /ai) on top of            *)
(* EmbeddingService.searchSimilar and AIService.generateAnswer             *)

\* the query texts of the requests: semanticSearchSchema and aiSearchSchema
\* let them pass (1 to 500 characters)
WmlabTexts == {q \in {"dock", "forklift safety"} : QLen(q) >= 1 /\ QLen(q) <= MaxSearchLen}

WmlabOps ==
  {"prisma.query.create", "openai.embeddings", "db.vector",
   "prisma.query.findMany", "openai.chat", "prisma.query.update"}

\* the operations that write the query log
LogOps == {"prisma.query.create", "prisma.query.update"}

\* what a request may meet: nothing failing, or one operation failing
WmlabEnvs == {{}} \cup {{op} : op \in WmlabOps}

\* e.embedding <-> queryEmbedding, in thousandths
Distance(q, c) ==
  CASE q = "forklift safety" /\ c = "c1" -> 447
    [] q = "forklift safety" /\ c = "c2" -> 938
    [] q = "forklift safety" /\ c = "c3" -> 693
    [] q = "dock" /\ c = "c1" -> 1086
    [] q = "dock" /\ c = "c2" -> 600
    [] OTHER -> 1414

RECURSIVE NearestFirst(_, _)
\* ORDER BY e.embedding <-> $1 over a set of chunks
NearestFirst(S, q) ==
  IF S = {} THEN <<>>
  ELSE LET best == CHOOSE c \in S : \A d \in S : Distance(q, c) <= Distance(q, d)
       IN <<best>> \o NearestFirst(S \ {best}, q)

\* EmbeddingService.searchSimilar(query, limit, filters): no threshold
SearchSimilar(q, limit, warehouseId) ==
  LET matching == {c \in Chunks : warehouseId # "" => DocWarehouse(Doc(c)) = warehouseId}
      page == Take(NearestFirst(matching, q), limit)
  IN [i \in 1..Len(page) |->
        [id |-> page[i], documentId |-> Doc(page[i]),
         similarity |-> 1000 - Distance(q, page[i])]]

RECURSIVE SumSimilarity(_)
SumSimilarity(rs) ==
  IF rs = <<>> THEN 0 ELSE Head(rs).similarity + SumSimilarity(Tail(rs))

\* Math.min(avgSimilarity * 1.2, 1) of AIService.generateAnswer; 0 / 0 is NaN
AiConfidence(chunks) ==
  IF Len(chunks) = 0 THEN [nan |-> TRUE, value |-> 0]
  ELSE [nan |-> FALSE,
        value |-> Min(((SumSimilarity(chunks) \div Len(chunks)) * 12) \div 10, ScoreCap)]

\* the row prisma.query.create writes: successful and error are not given
NewRow(q, type, conversationId) ==
  [query |-> q, type |-> type, conversationId |-> conversationId,
   successful |-> "unset", error |-> "unset", response |-> "unset"]

\* the row after prisma.query.update
Updated(rows, id, response) ==
  [rows EXCEPT ![id] = [@ EXCEPT !.successful = "true", !.response = response]]

\* the steps of a handler up to and including the first failing one
Reached(steps, fail) ==
  LET bad == {i \in 1..Len(steps) : steps[i] \in fail}
  IN IF bad = {} THEN steps
     ELSE SubSeq(steps, 1, CHOOSE i \in bad : \A j \in bad : i <= j)

\* the previousQueries of AIService.generateAnswer: the conversation's rows,
\* oldest first, the first HistoryTake of them
History(rows, conversationId) ==
  Take(SeqFilter([i \in 1..Len(rows) |-> i],
                 {i \in 1..Len(rows) : rows[i].conversationId = conversationId}),
       HistoryTake)

\* the handlers' common shape: the row is created, the steps run, the row is
\* updated and the response sent; any failure is answered with 500
Handle(route, q, limit, warehouseId, conversationId, steps, fail) ==
  LET done == Reached(steps, fail)
      created == "prisma.query.create" \notin fail
      rows == IF created THEN Append(queryRows, NewRow(q, route, conversationId))
              ELSE queryRows
      id == IF created THEN Len(rows) ELSE 0
      ok == EventSet(steps) \cap fail = {}
      answered == ok /\ route = "ai"
      results == SearchSimilar(q, limit, warehouseId)
  IN /\ queryRows' = IF ok THEN Updated(rows, id, IF route = "ai" THEN "answer" ELSE "results")
                     ELSE rows
     /\ reply' = [route |-> route, query |-> q, status |-> IF ok THEN 200 ELSE 500,
                  results |-> IF ok THEN results ELSE <<>>,
                  limit |-> limit, warehouseId |-> warehouseId,
                  confidence |-> IF answered THEN AiConfidence(results) ELSE NoConfidence,
                  history |-> IF answered /\ conversationId # ""
                              THEN History(rows, conversationId) ELSE <<>>,
                  failed |-> EventSet(done) \cap fail, rowId |-> id]

\* POST /semantic
Semantic(q, limit, warehouseId, fail) ==
  /\ Len(queryRows) < MaxRows
  /\ Handle("semantic", q, limit, warehouseId, "",
            <<"prisma.query.create", "openai.embeddings", "db.vector",
              "prisma.query.update">>,
            fail)
  /\ UNCHANGED <<serviceVars, apiVars, rerankVars, restVars>>

\* POST /ai: the ten nearest chunks, then AIService.generateAnswer, which
\* reads the conversation's rows when the request names a conversation
Ai(q, warehouseId, conversationId, fail) ==
  /\ Len(queryRows) < MaxRows
  /\ Handle("ai", q, AiChunks, warehouseId, conversationId,
            IF conversationId # ""
            THEN <<"prisma.query.create", "openai.embeddings", "db.vector",
                   "prisma.query.findMany", "openai.chat", "prisma.query.update">>
            ELSE <<"prisma.query.create", "openai.embeddings", "db.vector",
                   "openai.chat", "prisma.query.update">>,
            fail)
  /\ UNCHANGED <<serviceVars, apiVars, rerankVars, restVars>>

NextWmlab ==
  \/ \E q \in WmlabTexts, limit \in {1, ControllerLimit}, w \in {"", "w1"},
        fail \in WmlabEnvs : Semantic(q, limit, w, fail)
  \/ \E q \in WmlabTexts, w \in {"", "w3"}, conversationId \in {"", "k1"},
        fail \in WmlabEnvs : Ai(q, w, conversationId, fail)

SpecWmlab == InitRoutes /\ [][NextWmlab]_vars

----------------------------------------------------------------------------
(* Properties of the wmlab routes *)

\* C6: a failure while writing the query log never fails the search: the
\* request gets the successful response it gets when the log is written.
LogFailureNeverFailsSearch ==
  (reply.route # "none" /\ reply.failed # {} /\ reply.failed \subseteq LogOps) =>
     /\ reply.status = 200
     /\ reply.results = SearchSimilar(reply.query, reply.limit, reply.warehouseId)

\* C7: every validated search leaves a log record, and a search that failed
\* is recorded with successful = false and an error field.
FailedSearchIsRecorded ==
  reply.route # "none" =>
    /\ reply.rowId \in 1..Len(queryRows)
    /\ reply.status = 500 =>
         /\ queryRows[reply.rowId].successful = "false"
         /\ queryRows[reply.rowId].error # "unset"

----------------------------------------------------------------------------
(* rerankResults on its own: the same inputs, ranked at several instants   *)

\* Date.now() at the runs, in days
RerankInstants == {101, 103, 113, 140}

\* what search hands to rerankResults: a query and the rows of
\* executeVectorSearch for it, at least one
RerankInputs ==
  {inp \in {[query |-> q,
             raw |-> ExecuteVectorSearch(q, limit, offset, threshold, filters, CalmEnv).rows,
             runs |-> <<>>] :
               q \in {"forklift safety", "dock safety", "to dock"},
               limit \in {1, 2, DEFAULT_LIMIT},
               offset \in {0, 1}, threshold \in {300, 500, DEFAULT_THRESHOLD},
               filters \in FilterChoices} :
     Len(inp.raw) > 0}

InitRerankRuns ==
  /\ searchCache = <<>> /\ embCache = {} /\ relCache = <<>> /\ searchLogs = {}
  /\ clock = 1 /\ last = NoCall
  /\ InitApi /\ InitWmlab /\ InitRest
  /\ rerank \in RerankInputs

\* one more invocation of rerankResults(query, raw), no earlier than the last
RunRerank(now) ==
  /\ Len(rerank.runs) < MaxRuns
  /\ \A i \in 1..Len(rerank.runs) : rerank.runs[i].at <= now
  /\ rerank' = [rerank EXCEPT !.runs =
                  Append(@, [at |-> now, out |-> RerankResults(rerank.query, rerank.raw, now)])]
  /\ UNCHANGED <<serviceVars, apiVars, wmlabVars, restVars>>

NextRerank == \E now \in RerankInstants : RunRerank(now)

SpecRerank == InitRerankRuns /\ [][NextRerank]_vars

\* C10: two invocations of rerankResults with the same query, raw results
\* and document metadata give the same adjusted scores in the same order,
\* whatever the times at which they run.
RerankDeterministic ==
  \A i, j \in 1..Len(rerank.runs) : rerank.runs[i].out = rerank.runs[j].out


-----------------------------------------------------------------------------
(* executeVectorSearch on its own, under every combination of filters *)

\* the backend at rest while one function is applied on its own
InitBackend ==
  /\ searchCache = <<>> /\ embCache = {} /\ relCache = <<>> /\ searchLogs = {}
  /\ clock = 1 /\ last = NoCall
  /\ InitApi /\ InitWmlab /\ InitRerank

NoDate == [rep |-> "none", day |-> 0]

\* SearchFilters values a caller can supply
SuppliedFilters ==
  [set : {TRUE}, departmentId : {"", "dep1"}, warehouseId : {"", "w1", "w2"},
   documentType : {"", "pdf"}, language : {"", "en"},
   dateFrom : {NoDate, DateOf(20), DateOf(40)},
   dateTo : {NoDate, DateOf(40), DateOf(90)},
   tags : {{}, {"hazmat"}}, categories : {{}, {"Safety"}}]

InitFilters ==
  /\ InitBackend /\ feedbackRows = <<>> /\ hook = NoHook
  /\ calc \in [fn : {"executeVectorSearch"}, query : Queries, filters : SuppliedFilters,
               done : {FALSE}, rows : {<<>>}]

\* executeVectorSearch(embedding, limit, offset, threshold, filters)
VectorSearch ==
  /\ calc.fn = "executeVectorSearch" /\ ~calc.done
  /\ calc' = [calc EXCEPT !.done = TRUE,
                          !.rows = ExecuteVectorSearch(calc.query, DEFAULT_LIMIT, 0, 0,
                                                       calc.filters, CalmEnv).rows]
  /\ UNCHANGED <<serviceVars, apiVars, wmlabVars, rerankVars, feedbackRows, hook>>

NextFilters == VectorSearch

SpecFilters == InitFilters /\ [][NextFilters]_vars

\* what each supplied field of SearchFilters asks of the document of a chunk
SatisfiesEveryFilter(c, f) ==
  LET d == Doc(c)
  IN /\ (f.warehouseId # "" => DocWarehouse(d) = f.warehouseId)
     /\ (f.departmentId # "" => DocDepartment(d) = f.departmentId)
     /\ (f.documentType # "" => DocType(d) = f.documentType)
     /\ (f.language # "" => DocLanguage(d) = f.language)
     /\ (f.categories # {} => DocCategory(d) \in f.categories)
     /\ (f.tags # {} => f.tags \subseteq DocTags(d))
     /\ (f.dateFrom.rep # "none" => DocCreatedDay(d) >= f.dateFrom.day)
     /\ (f.dateTo.rep # "none" => DocCreatedDay(d) <= f.dateTo.day)

\* C11: the filters compose with AND: every row executeVectorSearch returns
\* satisfies every supplied filter (warehouse, department, document type,
\* category, language, tags, creation day within [dateFrom, dateTo]); no
\* supplied field is ignored.
EveryFilterApplied ==
  (calc.fn = "executeVectorSearch" /\ calc.done) =>
    \A i \in 1..Len(calc.rows) : SatisfiesEveryFilter(calc.rows[i].id, calc.filters)

\* the same for the fields other than tags, which the WHERE clause does carry
FiltersButTagsApplied ==
  (calc.fn = "executeVectorSearch" /\ calc.done) =>
    \A i \in 1..Len(calc.rows) :
      SatisfiesEveryFilter(calc.rows[i].id, [calc.filters EXCEPT !.tags = {}])


-----------------------------------------------------------------------------
(* Search feedback *)

MaxFeedback == 3

FeedbackUsers == {"u1", "u2"}
FeedbackQueries == {"", "s1"}
FeedbackResults == {"", "r1"}

\* rating || (helpful ? 5 : 1) of the wmlab handler
WmlabRating(rating, helpful) ==
  IF rating # "" THEN rating ELSE IF helpful THEN "5" ELSE "1"

\* wmlab POST /feedback: prisma.feedback.create, a new row at every call;
\* the row has no result column
WmlabFeedback(queryId, resultId, userId, rating, helpful) ==
  /\ Len(feedbackRows) < MaxFeedback
  /\ IF queryId = "" /\ resultId = ""
     THEN /\ calc' = [fn |-> "wmlab POST /feedback", status |-> 400, queryId |-> queryId,
                      userId |-> userId, resultId |-> resultId, rating |-> ""]
          /\ UNCHANGED feedbackRows
     ELSE /\ feedbackRows' =
               Append(feedbackRows,
                      [table |-> "feedback",
                       queryId |-> IF queryId # "" THEN queryId ELSE resultId,
                       userId |-> userId, resultId |-> "",
                       rating |-> WmlabRating(rating, helpful)])
          /\ calc' = [fn |-> "wmlab POST /feedback", status |-> 200, queryId |-> queryId,
                      userId |-> userId, resultId |-> resultId,
                      rating |-> WmlabRating(rating, helpful)]
  /\ UNCHANGED <<serviceVars, apiVars, wmlabVars, rerankVars, hook>>

\* backend POST /api/search/feedback: validates and answers, saves nothing
RouteFeedback(searchId, resultId, userId, rating) ==
  /\ Len(feedbackRows) < MaxFeedback
  /\ calc' = [fn |-> "POST /api/search/feedback",
              status |-> IF searchId = "" THEN 400 ELSE 200, queryId |-> searchId,
              userId |-> userId, resultId |-> resultId, rating |-> rating]
  /\ UNCHANGED <<serviceVars, apiVars, wmlabVars, rerankVars, feedbackRows, hook>>

\* the row ON CONFLICT (search_log_id, user_id, result_id) finds: a NULL
\* result_id is distinct from every other under the unique index
Conflicting(rows, searchLogId, userId, resultId) ==
  {i \in 1..Len(rows) :
     /\ rows[i].table = "search_feedback"
     /\ rows[i].queryId = searchLogId /\ rows[i].userId = userId
     /\ resultId # "" /\ rows[i].resultId = resultId}

\* CALL update_search_feedback(search_log_id, user_id, result_id, rating)
UpdateSearchFeedback(searchLogId, resultId, userId, rating) ==
  /\ Len(feedbackRows) < MaxFeedback
  /\ searchLogId # ""
  /\ LET hit == Conflicting(feedbackRows, searchLogId, userId, resultId)
     IN feedbackRows' =
          IF hit # {}
          THEN [i \in 1..Len(feedbackRows) |->
                  IF i \in hit THEN [feedbackRows[i] EXCEPT !.rating = rating]
                  ELSE feedbackRows[i]]
          ELSE Append(feedbackRows,
                      [table |-> "search_feedback", queryId |-> searchLogId,
                       userId |-> userId, resultId |-> resultId, rating |-> rating])
  /\ calc' = [fn |-> "update_search_feedback", status |-> 200, queryId |-> searchLogId,
              userId |-> userId, resultId |-> resultId, rating |-> rating]
  /\ UNCHANGED <<serviceVars, apiVars, wmlabVars, rerankVars, hook>>

InitFeedback == InitBackend /\ InitRest

NextFeedback ==
  \/ \E q \in FeedbackQueries, r \in FeedbackResults, u \in FeedbackUsers,
        rating \in {"", "3"}, helpful \in BOOLEAN :
       WmlabFeedback(q, r, u, rating, helpful)
  \/ \E q \in FeedbackQueries, r \in FeedbackResults, u \in FeedbackUsers,
        rating \in {"helpful", "not_helpful"} :
       RouteFeedback(q, r, u, rating)
  \/ \E q \in FeedbackQueries, r \in FeedbackResults, u \in FeedbackUsers,
        rating \in {"helpful", "not_helpful"} :
       UpdateSearchFeedback(q, r, u, rating)

SpecFeedback == InitFeedback /\ [][NextFeedback]_vars

\* C12: feedback is an upsert: after any sequence of submissions there is
\* at most one stored row per (queryId, userId, resultId), also without a
\* resultId, and after an accepted submission that row carries the rating
\* just submitted.
FeedbackIsUpsert ==
  /\ \A i, j \in 1..Len(feedbackRows) :
       (/\ feedbackRows[i].table = feedbackRows[j].table
        /\ feedbackRows[i].queryId = feedbackRows[j].queryId
        /\ feedbackRows[i].userId = feedbackRows[j].userId
        /\ feedbackRows[i].resultId = feedbackRows[j].resultId) => i = j
  /\ (calc.fn \in {"wmlab POST /feedback", "POST /api/search/feedback",
                   "update_search_feedback"} /\ calc.status = 200) =>
       \E i \in 1..Len(feedbackRows) :
         /\ feedbackRows[i].userId = calc.userId
         /\ feedbackRows[i].queryId \in {calc.queryId, calc.resultId}
         /\ feedbackRows[i].rating = calc.rating

\* what the procedure does keep: one row per triple with a result
OneRowPerResult ==
  \A i, j \in 1..Len(feedbackRows) :
    (/\ feedbackRows[i].table = "search_feedback"
     /\ feedbackRows[i].resultId # ""
     /\ feedbackRows[i] = [feedbackRows[j] EXCEPT !.rating = feedbackRows[i].rating])
    => i = j


-----------------------------------------------------------------------------
(* Confidence *)

\* C13: the confidence reported with an answer is always a number in
\* [0, 1], also when similarity scores lie outside [0, 1] and when the set
\* of chunks is empty.
ConfidenceInUnitInterval ==
  (reply.route = "ai" /\ reply.status = 200) =>
    /\ ~reply.confidence.nan
    /\ reply.confidence.value >= 0 /\ reply.confidence.value <= ScoreCap

\* the same for SearchController.calculateConfidence, which clamps
ControllerConfidenceBounded ==
  http.status = 200 => http.confidence >= 0 /\ http.confidence <= ScoreCap


-----------------------------------------------------------------------------
(* Answers without chunks, answers without a completion *)

CompletionCalls == {"openai.chat", "openai.chat stream"}

\* an exchange that asked for an answer to be built from a search of its own
AnswerWanted ==
  \/ http.route = "search" /\ http.includeAnswer
  \/ http.route = "answer" /\ ~http.context

\* C14: when an answer is requested and the search finds no chunks, the
\* response carries no answer and the completion provider is never asked.
NoChunksNoCompletion ==
  (AnswerWanted /\ http.status = 200 /\ http.results = <<>>) =>
    /\ ~http.answered
    /\ EventSet(http.events) \cap CompletionCalls = {}


\* the keys of the body SearchController.search sends with res.json:
\* success, the fields of the service's response, and answer
SearchBodyKeys(h) ==
  IF h.status = 200
  THEN {"success", "data.results", "data.totalCount", "data.query",
        "data.suggestions", "data.filters", "data.executionTime", "data.answer"}
  ELSE {"success", "error"}

\* the keys of a search response that was not asked for an answer
PlainBodyKeys ==
  SearchBodyKeys([NoHttp EXCEPT !.route = "search", !.status = 200])

\* a search with includeAnswer whose completion request failed
CompletionFailed ==
  /\ http.route = "search" /\ http.includeAnswer
  /\ "openai.chat" \in EventSet(http.events) /\ ~http.answered

\* C15: when the completion provider fails while a search with
\* includeAnswer is generating its answer, the request still succeeds and
\* returns the results without an answer, and the response is explicitly
\* flagged as degraded.
DegradedAnswerFlagged ==
  CompletionFailed =>
    /\ http.status = 200 /\ Len(http.results) > 0 /\ ~http.answered
    /\ SearchBodyKeys(http) \ PlainBodyKeys # {}

\* the part of it the handler does give: the results, without an answer
CompletionFailureKeepsResults ==
  CompletionFailed => http.status = 200 /\ Len(http.results) > 0 /\ ~http.answered

CompletionFailureSeen == CompletionFailed /\ http.status = 200


-----------------------------------------------------------------------------
(* frontend: useSearch and SearchApiService.search *)

MaxRequests == 3

HookTexts == {"", "dock", "forklift safety"}

\* what the backend holds for a query
TotalFor(q) == IF q = "dock" THEN 3 ELSE IF q = "forklift safety" THEN 1 ELSE 0

\* the page of a query at an offset
PageOf(q, offset, limit) ==
  LET n == Max(Min(TotalFor(q) - offset, limit), 0)
  IN [i \in 1..n |-> [query |-> q, rank |-> offset + i]]

\* the data of the response to a request
ServerData(r) ==
  [results |-> PageOf(r.query, r.offset, r.limit),
   answer |-> IF r.includeAnswer /\ TotalFor(r.query) > r.offset THEN r.query ELSE "",
   totalCount |-> TotalFor(r.query)]

\* the name of the error axios rejects an aborted request with
AxiosCancelName == "CanceledError"

\* abortControllerRef.current.abort(): the request of the controller, if
\* still in flight, is aborted
AbortCurrent(h) ==
  [i \in 1..Len(h.requests) |->
     IF i = h.controller /\ h.requests[i].status = "inflight"
     THEN [h.requests[i] EXCEPT !.status = "aborted"]
     ELSE h.requests[i]]

\* search(query, options): the state is set, then searchMutation.mutationFn
\* aborts the controller of the ref, makes a new one and sends the request
HookSearch(q, limit) ==
  /\ Len(hook.requests) < MaxRequests
  /\ IF q = ""
     THEN hook' = [hook EXCEPT !.results = <<>>, !.aiAnswer = "",
                               !.error = "Query is required"]
     ELSE LET merged == IF limit # 0 THEN limit ELSE hook.limit
          IN hook' = [hook EXCEPT
               !.query = q, !.isLoading = TRUE, !.error = "", !.limit = merged,
               !.controller = Len(hook.requests) + 1,
               !.requests = Append(AbortCurrent(hook),
                                   [kind |-> "search", query |-> q, offset |-> hook.offset,
                                    limit |-> merged, includeAnswer |-> hook.includeAnswer,
                                    signal |-> TRUE, status |-> "inflight",
                                    delivered |-> ""])]
  /\ UNCHANGED <<serviceVars, apiVars, wmlabVars, rerankVars, calc, feedbackRows>>

\* loadMore asking for the answer again with the page
LoadMoreRequestWithAnswer(h) ==
  [kind |-> "loadMore", query |-> h.query,
   offset |-> h.offset + (IF h.limit # 0 THEN h.limit ELSE PageLimit),
   limit |-> h.limit, includeAnswer |-> h.includeAnswer, signal |-> FALSE,
   status |-> "inflight", delivered |-> ""]

\* the request loadMore sends for the state it is called in
LoadMoreRequest(h) ==
  [kind |-> "loadMore", query |-> h.query,
   offset |-> h.offset + (IF h.limit # 0 THEN h.limit ELSE PageLimit),
   limit |-> h.limit, includeAnswer |-> FALSE, signal |-> FALSE,
   status |-> "inflight", delivered |-> ""]

\* loadMore()
LoadMore ==
  /\ Len(hook.requests) < MaxRequests
  /\ hook.query # "" /\ ~hook.isLoading /\ hook.hasMore
  /\ hook' = [hook EXCEPT !.isLoading = TRUE,
                          !.requests = Append(@, LoadMoreRequest(hook))]
  /\ UNCHANGED <<serviceVars, apiVars, wmlabVars, rerankVars, calc, feedbackRows>>

\* setQuery(query)
SetQuery(q) ==
  /\ hook.query # q
  /\ hook' = [hook EXCEPT !.query = q]
  /\ UNCHANGED <<serviceVars, apiVars, wmlabVars, rerankVars, calc, feedbackRows>>

\* clearResults()
ClearResults ==
  /\ hook' = [NoHook EXCEPT !.controller = hook.controller, !.requests = hook.requests]
  /\ hook' # hook
  /\ UNCHANGED <<serviceVars, apiVars, wmlabVars, rerankVars, calc, feedbackRows>>

\* the data of the response as the search service and its controller build
\* it: totalCount is the number of results of the page
BackendData(r) ==
  [results |-> PageOf(r.query, r.offset, r.limit),
   answer |-> IF r.includeAnswer /\ TotalFor(r.query) > r.offset THEN r.query ELSE "",
   totalCount |-> Len(PageOf(r.query, r.offset, r.limit))]

\* the response to request i arrives with data: onSuccess of
\* searchMutation, or the continuation of loadMore after its await
Arrive(i, data) ==
  /\ hook.requests[i].status = "inflight"
  /\ LET r == hook.requests[i]
     IN hook' =
          IF r.kind = "search"
          THEN [hook EXCEPT
                  !.results = data.results, !.aiAnswer = data.answer,
                  !.totalCount = data.totalCount, !.isLoading = FALSE, !.error = "",
                  !.hasMore = data.totalCount > hook.offset + Len(data.results),
                  !.requests[i].status = "done", !.requests[i].delivered = "results"]
          ELSE [hook EXCEPT
                  !.results = hook.results \o data.results, !.isLoading = FALSE,
                  !.hasMore = data.totalCount > r.offset + Len(data.results),
                  !.offset = r.offset,
                  !.requests[i].status = "done", !.requests[i].delivered = "results"]
  /\ UNCHANGED <<serviceVars, apiVars, wmlabVars, rerankVars, calc, feedbackRows>>

\* request i is answered by a server whose totalCount counts every match
Succeed(i) == Arrive(i, ServerData(hook.requests[i]))

\* request i is answered by the search service of the backend
SucceedBackend(i) == Arrive(i, BackendData(hook.requests[i]))

\* request i fails at the server or on the way: onError of searchMutation,
\* or the catch of loadMore
Fail(i) ==
  /\ hook.requests[i].status = "inflight"
  /\ hook' = [hook EXCEPT !.isLoading = FALSE, !.error = "Request failed",
                          !.requests[i].status = "done", !.requests[i].delivered = "error"]
  /\ UNCHANGED <<serviceVars, apiVars, wmlabVars, rerankVars, calc, feedbackRows>>

\* the promise of the aborted request i rejects: onError of searchMutation,
\* which lets pass only an error named AbortError
Reject(i) ==
  /\ hook.requests[i].status = "aborted"
  /\ hook' = IF AxiosCancelName # "AbortError"
             THEN [hook EXCEPT !.isLoading = FALSE, !.error = "canceled",
                               !.requests[i].status = "rejected",
                               !.requests[i].delivered = "error"]
             ELSE [hook EXCEPT !.requests[i].status = "rejected"]
  /\ UNCHANGED <<serviceVars, apiVars, wmlabVars, rerankVars, calc, feedbackRows>>

InitHook == InitBackend /\ InitRest

NextHook ==
  \/ \E q \in HookTexts, limit \in {0, 2} : HookSearch(q, limit)
  \/ LoadMore
  \/ \E q \in HookTexts : SetQuery(q)
  \/ ClearResults
  \/ \E i \in 1..Len(hook.requests) : Succeed(i)
  \/ \E i \in 1..Len(hook.requests) : SucceedBackend(i)
  \/ \E i \in 1..Len(hook.requests) : Fail(i)
  \/ \E i \in 1..Len(hook.requests) : Reject(i)

SpecHook == InitHook /\ [][NextHook]_vars

\* C16: a search issued while an earlier one of the same useSearch is in
\* flight aborts the earlier request before sending its own: at most one
\* request is in flight un-aborted at any time, and an aborted request
\* delivers neither results nor an error into the state.
SupersededSearchCancelled ==
  /\ Cardinality({i \in 1..Len(hook.requests) : hook.requests[i].status = "inflight"}) <= 1
  /\ \A i \in 1..Len(hook.requests) :
       hook.requests[i].status \in {"aborted", "rejected"} =>
         hook.requests[i].delivered = ""

\* what searchMutation does keep: of the requests it sent itself, at most
\* one is in flight un-aborted
OneSearchInFlight ==
  Cardinality({i \in 1..Len(hook.requests) :
                 hook.requests[i].kind = "search" /\ hook.requests[i].status = "inflight"}) <= 1


\* a step in which loadMore sends its request
LoadMoreSent ==
  /\ Len(hook'.requests) = Len(hook.requests) + 1
  /\ hook'.requests[Len(hook'.requests)].kind = "loadMore"

\* a step in which the page asked for by request i of loadMore arrives
LoadMoreArrived(i) ==
  /\ hook.requests[i].kind = "loadMore" /\ hook.requests[i].status = "inflight"
  /\ Len(hook'.requests) = Len(hook.requests)
  /\ hook'.requests[i].delivered = "results"

\* C18: loadMore asks for the current query at the offset increased by the
\* page limit with includeAnswer = false, appends the page it gets to the
\* results already loaded, and leaves the AI answer as it was.
LoadMoreAppendsPage ==
  [][/\ LoadMoreSent =>
         LET r == hook'.requests[Len(hook'.requests)]
         IN /\ r.query = hook.query
            /\ r.offset = hook.offset + hook.limit /\ r.limit = hook.limit
            /\ ~r.includeAnswer
            /\ hook'.aiAnswer = hook.aiAnswer /\ hook'.results = hook.results
      /\ \A i \in 1..Len(hook.requests) :
           LoadMoreArrived(i) =>
             /\ hook'.results =
                  hook.results \o PageOf(hook.requests[i].query, hook.requests[i].offset,
                                        hook.requests[i].limit)
             /\ hook'.aiAnswer = hook.aiAnswer]_vars

\* a second page has been appended below an answer
SecondPageLoaded ==
  /\ hook.aiAnswer # "" /\ Len(hook.results) > hook.limit
  /\ \E i \in 1..Len(hook.requests) :
       /\ hook.requests[i].kind = "loadMore" /\ hook.requests[i].delivered = "results"
       /\ hook.requests[i].query = hook.aiAnswer


-----------------------------------------------------------------------------
(* A streamed answer: generateAIAnswer with stream = true, streamCompletion, *)
(* and streamAIAnswer reading the events                                     *)

MaxFragments == 4

\* the response after writeHead and before anything is written, and the
\* EventSource of the client
InitStream ==
  /\ InitBackend /\ feedbackRows = <<>> /\ hook = NoHook
  /\ calc \in [fn : {"streamAIAnswer"}, query : {"dock safety", "forklift safety"},
               phase : {"idle"}, frames : {<<>>}, read : {0}, chunks : {0},
               client : {"open"}]

\* res.writeHead(200, {'Content-Type': 'text/event-stream', ...})
OpenStream ==
  /\ calc.fn = "streamAIAnswer" /\ calc.phase = "idle"
  /\ calc' = [calc EXCEPT !.phase = "open"]
  /\ UNCHANGED <<serviceVars, apiVars, wmlabVars, rerankVars, feedbackRows, hook>>

\* streamCompletion yields a fragment and the handler writes it
WriteContent ==
  /\ calc.fn = "streamAIAnswer" /\ calc.phase = "open"
  /\ Len(calc.frames) < MaxFragments
  /\ calc' = [calc EXCEPT !.frames = Append(@, "content")]
  /\ UNCHANGED <<serviceVars, apiVars, wmlabVars, rerankVars, feedbackRows, hook>>

\* the provider's stream is exhausted: res.write('data: [DONE]'), res.end()
WriteDone ==
  /\ calc.fn = "streamAIAnswer" /\ calc.phase = "open"
  /\ calc' = [calc EXCEPT !.frames = Append(@, "[DONE]"), !.phase = "ended"]
  /\ UNCHANGED <<serviceVars, apiVars, wmlabVars, rerankVars, feedbackRows, hook>>

\* the provider fails, at the request or between two fragments:
\* streamCompletion throws AppError, the handler's catch calls next(error)
\* and the response ends as the error handler leaves it
ProviderFails ==
  /\ calc.fn = "streamAIAnswer" /\ calc.phase = "open"
  /\ calc' = [calc EXCEPT !.phase = "ended"]
  /\ UNCHANGED <<serviceVars, apiVars, wmlabVars, rerankVars, feedbackRows, hook>>

\* eventSource.onmessage
ClientMessage ==
  /\ calc.fn = "streamAIAnswer" /\ calc.client = "open"
  /\ calc.read < Len(calc.frames)
  /\ calc' = IF calc.frames[calc.read + 1] = "[DONE]"
             THEN [calc EXCEPT !.read = @ + 1, !.client = "complete"]
             ELSE [calc EXCEPT !.read = @ + 1, !.chunks = @ + 1]
  /\ UNCHANGED <<serviceVars, apiVars, wmlabVars, rerankVars, feedbackRows, hook>>

\* eventSource.onerror: the connection is gone
ClientError ==
  /\ calc.fn = "streamAIAnswer" /\ calc.client = "open"
  /\ calc.phase = "ended" /\ calc.read = Len(calc.frames)
  /\ calc' = [calc EXCEPT !.client = "error"]
  /\ UNCHANGED <<serviceVars, apiVars, wmlabVars, rerankVars, feedbackRows, hook>>

NextStream ==
  \/ OpenStream
  \/ WriteContent
  \/ WriteDone
  \/ ProviderFails
  \/ ClientMessage
  \/ ClientError

SpecStream == InitStream /\ [][NextStream]_vars

Sentinels(frames) == {i \in 1..Len(frames) : frames[i] = "[DONE]"}

\* C17: a streamed answer is content events followed by exactly one
\* '[DONE]' sentinel: a stream that was opened and has ended, also through
\* a failure of the provider, carries the sentinel exactly once as its last
\* event, and nothing follows the sentinel.
StreamEndsWithSentinel ==
  /\ Sentinels(calc.frames) \subseteq {Len(calc.frames)}
  /\ (calc.fn = "streamAIAnswer" /\ calc.phase = "ended") =>
       Sentinels(calc.frames) = {Len(calc.frames)}

\* what the handler does keep: nothing is written after the sentinel
NothingAfterSentinel ==
  calc.fn = "streamAIAnswer" => Sentinels(calc.frames) \subseteq {Len(calc.frames)}


-----------------------------------------------------------------------------
(* The conversation history of AIService.generateAnswer on its own *)

MaxTurns == 6

\* the conversations of the rows already in prisma.query, oldest first
EarlierTurns == UNION {[1..n -> {"k1", "k2"}] : n \in 0..MaxTurns}

InitHistory ==
  /\ InitBackend /\ feedbackRows = <<>> /\ hook = NoHook
  /\ calc \in [fn : {"generateAnswer"}, turns : EarlierTurns, conversationId : {"k1"},
               done : {FALSE}, current : {0}, history : {<<>>}]

\* POST /ai with a conversationId: the row of the request is created, then
\* generateAnswer reads previousQueries
ReplayHistory ==
  /\ calc.fn = "generateAnswer" /\ ~calc.done
  /\ LET rows == [i \in 1..Len(calc.turns) |-> NewRow("dock", "ai", calc.turns[i])]
                   \o <<NewRow("dock", "ai", calc.conversationId)>>
     IN calc' = [calc EXCEPT !.done = TRUE, !.current = Len(rows),
                             !.history = History(rows, calc.conversationId)]
  /\ UNCHANGED <<serviceVars, apiVars, wmlabVars, rerankVars, feedbackRows, hook>>

NextHistory == ReplayHistory

SpecHistory == InitHistory /\ [][NextHistory]_vars

\* the rows of the conversation created before the request's own, oldest first
PriorTurns ==
  SeqFilter([i \in 1..Len(calc.turns) |-> i],
            {i \in 1..Len(calc.turns) : calc.turns[i] = calc.conversationId})

\* C19: with a conversationId the prompt replays at most 5 prior turns of
\* the conversation, the 5 most recent ones, in the order of their creation.
RecentTurnsReplayed ==
  (calc.fn = "generateAnswer" /\ calc.done) =>
    calc.history = Drop(PriorTurns, Max(Len(PriorTurns) - HistoryTake, 0))

\* what findMany does keep: at most 5 rows of the conversation, oldest first
HistoryBoundedAndOrdered ==
  (calc.fn = "generateAnswer" /\ calc.done) =>
    /\ Len(calc.history) <= HistoryTake
    /\ \A i, j \in 1..Len(calc.history) : i < j => calc.history[i] < calc.history[j]
    /\ \A i \in 1..Len(calc.history) :
         calc.history[i] = calc.current \/ calc.turns[calc.history[i]] = calc.conversationId

\* the same claim with the request's own row let through: violated only
\* when the conversation has more rows than are taken
RecentRowsReplayed ==
  (calc.fn = "generateAnswer" /\ calc.done) =>
    LET all == Append(PriorTurns, calc.current)
    IN calc.history = Drop(all, Max(Len(all) - HistoryTake, 0))


-----------------------------------------------------------------------------
(* Trending queries *)

TrendingLimit == 10

\* the texts of the logged queries
TrendTexts == {"forklift safety procedures", "error code E-102"}

\* what the log holds of one text: how many searches, and how many days ago
\* (all on one day); count 0 for a text never searched
TrendLogs == [TrendTexts -> [count : {0, 50, 100}, age : {0, 3, 10}]]

\* EXP(-0.1 * age in days), in thousandths, for the ages the logs hold
Decay(age) ==
  CASE age = 0 -> 1000
    [] age = 1 -> 905
    [] age = 2 -> 819
    [] age = 3 -> 741
    [] age = 4 -> 670
    [] age = 5 -> 607
    [] age = 6 -> 549
    [] age = 7 -> 497
    [] age = 8 -> 449
    [] age = 9 -> 407
    [] OTHER -> 368

\* COUNT(*) * EXP(-0.1 * age of the latest search of the text)
TrendScore(logs, q) ==
  IF q \in DOMAIN logs THEN logs[q].count * Decay(logs[q].age) ELSE 0

\* WHERE created_at > now - days: the texts with a search in the window
InWindow(logs, days) == {q \in DOMAIN logs : logs[q].count > 0 /\ logs[q].age < days}

\* ORDER BY key DESC: every order of the rows the key allows (rows with
\* equal keys come in any order)
Orderings(S, key) ==
  {s \in [1..Cardinality(S) -> S] :
     /\ \A i, j \in 1..Cardinality(S) : i # j => s[i] # s[j]
     /\ \A i, j \in 1..Cardinality(S) : i < j => key[s[i]] >= key[s[j]]}

Served(logs, order) ==
  Take([i \in 1..Len(order) |-> [query |-> order[i], count |-> logs[order[i]].count]],
       TrendingLimit)

InitTrending ==
  /\ InitBackend /\ feedbackRows = <<>> /\ hook = NoHook
  /\ calc \in [fn : {"trending"}, logs : TrendLogs, days : {7, 30}, done : {FALSE},
               served : {<<>>}]

\* wmlab GET /trending: GROUP BY query ORDER BY count DESC LIMIT 10
WmlabTrending ==
  /\ calc.fn = "trending" /\ ~calc.done
  /\ \E order \in Orderings(InWindow(calc.logs, calc.days),
                             [q \in TrendTexts |-> calc.logs[q].count]) :
       calc' = [calc EXCEPT !.fn = "wmlab GET /trending", !.done = TRUE,
                            !.served = Served(calc.logs, order)]
  /\ UNCHANGED <<serviceVars, apiVars, wmlabVars, rerankVars, feedbackRows, hook>>

\* backend GET /api/search/trending: a list written in the handler
RouteTrending ==
  /\ calc.fn = "trending" /\ ~calc.done
  /\ calc' = [calc EXCEPT !.fn = "GET /api/search/trending", !.done = TRUE,
                          !.served = <<[query |-> "forklift safety procedures", count |-> 156],
                                       [query |-> "error code E-102", count |-> 89],
                                       [query |-> "inventory management", count |-> 67],
                                       [query |-> "shipping documentation", count |-> 45],
                                       [query |-> "equipment maintenance schedule",
                                        count |-> 34]>>]
  /\ UNCHANGED <<serviceVars, apiVars, wmlabVars, rerankVars, feedbackRows, hook>>

\* SELECT * FROM get_trending_queries(days): ORDER BY trend_score DESC
GetTrendingQueries ==
  /\ calc.fn = "trending" /\ ~calc.done
  /\ \E order \in Orderings(InWindow(calc.logs, calc.days),
                             [q \in TrendTexts |-> TrendScore(calc.logs, q)]) :
       calc' = [calc EXCEPT !.fn = "get_trending_queries", !.done = TRUE,
                            !.served = Served(calc.logs, order)]
  /\ UNCHANGED <<serviceVars, apiVars, wmlabVars, rerankVars, feedbackRows, hook>>

NextTrending ==
  \/ WmlabTrending
  \/ RouteTrending
  \/ GetTrendingQueries

SpecTrending == InitTrending /\ [][NextTrending]_vars

TrendingSources == {"wmlab GET /trending", "GET /api/search/trending", "get_trending_queries"}

\* C20: trending queries are ranked by count * e^(-0.1 * age in days), so
\* that 50 searches today rank above 100 searches ten days ago: the served
\* list is in the order of the decayed score, not of the raw count.
TrendingByDecayedScore ==
  (calc.fn \in TrendingSources /\ calc.done) =>
    \A i, j \in 1..Len(calc.served) :
      i < j => TrendScore(calc.logs, calc.served[i].query)
                 >= TrendScore(calc.logs, calc.served[j].query)

\* what the SQL function does give, were it the one that is served
FunctionRanksByDecay ==
  (calc.fn = "get_trending_queries" /\ calc.done) =>
    \A i, j \in 1..Len(calc.served) :
      i < j => TrendScore(calc.logs, calc.served[i].query)
                 >= TrendScore(calc.logs, calc.served[j].query)


-----------------------------------------------------------------------------
(* One search on its own: the order of its steps, and a failure while the  *)
(* results are ranked and highlighted                                       *)

RunDay == Instants[1]

RunTexts == {"forklift safety", "forklift (safety"}

ColdState == [searchCache |-> <<>>, embCache |-> {}, relCache |-> <<>>, searchLogs |-> {}]

\* the state an earlier search for the same query and options leaves when
\* nothing fails
WarmState(q, opts) ==
  LET run == SearchRun(q, opts, CalmEnv, RunDay, ColdState)
  IN [searchCache |-> run.searchCache, embCache |-> run.embCache,
      relCache |-> run.relCache, searchLogs |-> run.searchLogs]

NotRun ==
  [outcome |-> "none", hit |-> FALSE, resp |-> NoResponse, events |-> <<>>,
   attempts |-> 0, searchCache |-> <<>>, embCache |-> {}, relCache |-> <<>>,
   searchLogs |-> {}]

InitRun ==
  /\ InitBackend /\ feedbackRows = <<>> /\ hook = NoHook
  /\ calc \in [fn : {"search"}, query : RunTexts, options : Options, env : Envs,
               warm : BOOLEAN, done : {FALSE}, before : {ColdState}, run : {NotRun}]

Ran(st, run) == calc' = [calc EXCEPT !.done = TRUE, !.before = st, !.run = run]

\* search(query, options) on a cold cache store
RunCold ==
  /\ calc.fn = "search" /\ ~calc.done /\ ~calc.warm
  /\ Ran(ColdState, SearchRun(calc.query, calc.options, calc.env, RunDay, ColdState))
  /\ UNCHANGED <<serviceVars, apiVars, wmlabVars, rerankVars, feedbackRows, hook>>

\* search(query, options) after an earlier search for the same
RunWarm ==
  /\ calc.fn = "search" /\ ~calc.done /\ calc.warm
  /\ Ran(WarmState(calc.query, calc.options),
         SearchRun(calc.query, calc.options, calc.env, RunDay,
                   WarmState(calc.query, calc.options)))
  /\ UNCHANGED <<serviceVars, apiVars, wmlabVars, rerankVars, feedbackRows, hook>>

NextRun ==
  \/ RunCold
  \/ RunWarm

SpecRun == InitRun /\ [][NextRun]_vars

\* the step of the pipeline an operation belongs to: cache lookup, embed,
\* retrieve, rerank, highlight, suggest, cache store, log
Stage(op) ==
  CASE op = "redis.get search" -> 1
    [] op \in {"redis.get embedding", "openai.embeddings", "redis.incrby cost",
               "redis.set embedding"} -> 2
    [] op = "db.vector" -> 3
    [] op = "rerankResults" -> 4
    [] op = "addHighlights" -> 5
    [] op \in {"redis.get related", "db.related", "redis.set related"} -> 6
    [] op = "redis.set search" -> 7
    [] OTHER -> 8

\* C21: the steps of one search run in the order cache lookup, embed,
\* retrieve, rerank and highlight, suggest, cache store, log: retrieval
\* never starts before the embedding is there, reranking never before the
\* retrieval, and the cache is written only with the assembled response of
\* a search that did not fail.
PipelineInOrder ==
  (calc.fn = "search" /\ calc.done) =>
    LET e == calc.run.events
        key == GetCacheKey(calc.query, calc.options)
    IN /\ \A i, j \in 1..Len(e) : i < j => Stage(e[i]) <= Stage(e[j])
       /\ "db.vector" \in EventSet(e) =>
            calc.query \in calc.run.embCache \/ "openai.embeddings" \in EventSet(e)
       /\ "redis.set search" \in EventSet(e) => calc.run.outcome = "ok"
       /\ calc.run.searchCache # calc.before.searchCache =>
            /\ calc.run.outcome = "ok" /\ ~calc.run.hit
            /\ "addHighlights" \in EventSet(e)
            /\ calc.run.searchCache = (key :> JsonResponse(calc.run.resp))
                                         @@ calc.before.searchCache

\* a search that went through all its steps and wrote the cache
PipelineCompleted ==
  /\ calc.fn = "search" /\ calc.done /\ calc.run.outcome = "ok"
  /\ {"openai.embeddings", "db.vector", "rerankResults", "addHighlights",
      "redis.set search", "db.insert search_logs"} \subseteq EventSet(calc.run.events)
  /\ calc.run.searchCache # calc.before.searchCache

\* C22: a failure while the results are reranked or their highlights
\* extracted never aborts the search: the search still returns the
\* retrieved results.
RankingFailureKeepsResults ==
  (/\ calc.fn = "search" /\ calc.done
   /\ "addHighlights" \in EventSet(calc.run.events)
   /\ \E i \in 1..Len(QTerms(calc.query)) : ~RegExpValid(QTerms(calc.query)[i])) =>
    calc.run.outcome = "ok" /\ Len(calc.run.resp.results) > 0


-----------------------------------------------------------------------------
(* The reranking formula *)

\* the bonus for 0.1 * the fraction of the terms longer than two characters
\* that occur in the content of chunk c
LongTermBonus(q, c) ==
  LET terms == QTerms(q)
      long == {i \in 1..Len(terms) : TermLen(terms[i]) > 2}
      found == {i \in long : ContentIncludes(c, terms[i])}
  IN IF long = {} THEN 0 ELSE (Cardinality(found) * TermBoost) \div Cardinality(long)

\* the raw score executeVectorSearch gave chunk c
RawScore(c) ==
  LET i == CHOOSE k \in 1..Len(rerank.raw) : rerank.raw[k].id = c
  IN rerank.raw[i].score

\* C23: the reranked score of every result is min(1.0, raw score + 0.1 *
\* (fraction of the query's terms longer than two characters that occur in
\* the content) + recency bonus (0.05 within 7 days of the document's
\* update, 0.02 within 30 days) + 0.15 if the title contains the query), and
\* the reranked list is in descending order of that score.
RerankedScoreFormula ==
  \A n \in 1..Len(rerank.runs) :
    LET out == rerank.runs[n].out
        now == rerank.runs[n].at
    IN /\ \A i \in 1..Len(out) :
            LET daysOld == now - out[i].updatedAt.day
                recency == IF daysOld < RecentDays THEN RecentBoost
                           ELSE IF daysOld < MonthDays THEN MonthBoost ELSE 0
                title == IF TitleIncludes(out[i].documentId, rerank.query)
                         THEN TitleBoost ELSE 0
            IN out[i].score =
                 Min(RawScore(out[i].id) + LongTermBonus(rerank.query, out[i].id)
                       + recency + title, ScoreCap)
       /\ \A i, j \in 1..Len(out) : i < j => out[i].score >= out[j].score

\* what rerankResults does keep: the cap and the descending order
RerankedCappedAndSorted ==
  \A n \in 1..Len(rerank.runs) :
    LET out == rerank.runs[n].out
    IN /\ \A i \in 1..Len(out) : out[i].score <= ScoreCap
       /\ \A i, j \in 1..Len(out) : i < j => out[i].score >= out[j].score


-----------------------------------------------------------------------------
(* Batch embeddings: the 'batch' processor of the embedding queue,          *)
(* processBatchEmbeddings and EmbeddingService.generateBatchEmbeddings      *)

\* embeddingQueue.process('batch', 2, ...): the jobs handled at a time
BatchConcurrency == 2

\* options.batchSize, the texts of one request
BatchSize == 2

\* the chunk tasks of the jobs: the chunk and its text go by one name
BatchTasks(j) == IF j = 1 THEN <<"a1", "a2", "a3">> ELSE <<"b1", "b2">>

\* the job before its processor is called
QueuedJob ==
  [pc |-> "queued", i |-> 0, k |-> 0, delayed |-> FALSE, gaps |-> <<>>,
   results |-> <<>>, failed |-> {}, tried |-> {}, written |-> <<>>]

InitBatch ==
  /\ InitBackend /\ feedbackRows = <<>> /\ hook = NoHook
  /\ calc = [fn |-> "batch", jobs |-> [j \in 1..BatchConcurrency |-> QueuedJob]]

Job(j) == calc.jobs[j]

\* texts.slice(i, i + batchSize)
BatchAt(j, i) == SubSeq(BatchTasks(j), i + 1, Min(i + BatchSize, Len(BatchTasks(j))))

SetJob(j, job) ==
  /\ calc' = [calc EXCEPT !.jobs[j] = job]
  /\ UNCHANGED <<serviceVars, apiVars, wmlabVars, rerankVars, feedbackRows, hook>>

\* the processor takes the job: processBatchEmbeddings, generateBatchEmbeddings
StartJob(j) ==
  /\ calc.fn = "batch" /\ Job(j).pc = "queued"
  /\ SetJob(j, [Job(j) EXCEPT !.pc = "send"])

\* openaiService.generateBatchEmbeddings(batch) is called: the request of
\* the sub-batch at i goes out
SendBatch(j) ==
  /\ calc.fn = "batch" /\ Job(j).pc = "send"
  /\ SetJob(j, [Job(j) EXCEPT
                  !.pc = "inflight", !.delayed = FALSE,
                  !.gaps = Append(@, IF Job(j).i = 0 THEN "first"
                                     ELSE IF Job(j).delayed THEN "delay" ELSE "none")])

\* the request is answered: a result for each text, then the delay if
\* texts are left
BatchAnswered(j) ==
  /\ calc.fn = "batch" /\ Job(j).pc = "inflight"
  /\ SetJob(j, [Job(j) EXCEPT
                  !.results = @ \o BatchAt(j, Job(j).i),
                  !.pc = IF Job(j).i + BatchSize < Len(BatchTasks(j)) THEN "delay"
                         ELSE "write"])

\* this.delay(delayMs), then the next turn of the loop
Delay(j) ==
  /\ calc.fn = "batch" /\ Job(j).pc = "delay"
  /\ SetJob(j, [Job(j) EXCEPT !.pc = "send", !.delayed = TRUE, !.i = @ + BatchSize])

\* the catch of the loop without the retry of the items
BatchFailsSkipping(j) ==
  /\ calc.fn = "batch" /\ Job(j).pc = "inflight"
  /\ SetJob(j, [Job(j) EXCEPT
                  !.failed = @ \cup {Job(j).i},
                  !.i = IF Job(j).i + BatchSize < Len(BatchTasks(j)) THEN @ + BatchSize ELSE @,
                  !.pc = IF Job(j).i + BatchSize < Len(BatchTasks(j)) THEN "send"
                         ELSE "write"])

\* the request fails (after the retries of pRetry): the catch of the loop
BatchFails(j) ==
  /\ calc.fn = "batch" /\ Job(j).pc = "inflight"
  /\ SetJob(j, [Job(j) EXCEPT !.pc = "retry", !.k = 1, !.failed = @ \cup {Job(j).i}])

\* the job after item k of the failed sub-batch has been retried
AfterItem(j, results) ==
  LET job == Job(j)
      lastItem == job.k = Len(BatchAt(j, job.i))
      more == job.i + BatchSize < Len(BatchTasks(j))
  IN [job EXCEPT !.results = results,
                 !.tried = @ \cup {BatchAt(j, job.i)[job.k]},
                 !.k = IF lastItem THEN 0 ELSE @ + 1,
                 !.i = IF lastItem /\ more THEN @ + BatchSize ELSE @,
                 !.pc = IF ~lastItem THEN "retry" ELSE IF more THEN "send" ELSE "write"]

\* generateEmbedding(text) for item k of the failed sub-batch succeeds
ItemEmbedded(j) ==
  /\ calc.fn = "batch" /\ Job(j).pc = "retry"
  /\ SetJob(j, AfterItem(j, Append(Job(j).results, BatchAt(j, Job(j).i)[Job(j).k])))

\* generateEmbedding(text) for item k throws: logged, nothing pushed
ItemFails(j) ==
  /\ calc.fn = "batch" /\ Job(j).pc = "retry"
  /\ SetJob(j, AfterItem(j, Job(j).results))

\* processBatchEmbeddings after generateBatchEmbeddings: tasks[i] gets
\* results[i].embedding, if there is a results[i]
WriteEmbeddings(j) ==
  /\ calc.fn = "batch" /\ Job(j).pc = "write"
  /\ SetJob(j, [Job(j) EXCEPT
                  !.pc = "done",
                  !.written = [n \in 1..Min(Len(BatchTasks(j)), Len(Job(j).results)) |->
                                 [chunk |-> BatchTasks(j)[n], embeddingOf |-> Job(j).results[n]]]])

NextBatch ==
  \/ \E j \in 1..BatchConcurrency : StartJob(j)
  \/ \E j \in 1..BatchConcurrency : SendBatch(j)
  \/ \E j \in 1..BatchConcurrency : BatchAnswered(j)
  \/ \E j \in 1..BatchConcurrency : Delay(j)
  \/ \E j \in 1..BatchConcurrency : BatchFails(j)
  \/ \E j \in 1..BatchConcurrency : ItemEmbedded(j)
  \/ \E j \in 1..BatchConcurrency : ItemFails(j)
  \/ \E j \in 1..BatchConcurrency : WriteEmbeddings(j)

SpecBatch == InitBatch /\ [][NextBatch]_vars


\* the starts of the sub-batches of job j
BatchStarts(j) == {i \in 0..(Len(BatchTasks(j)) - 1) : i % BatchSize = 0}

\* C24: a failed sub-batch request does not end generateBatchEmbeddings:
\* when the loop is over every sub-batch has been requested, every item of
\* a failed sub-batch has been retried on its own, and the results hold
\* every text of the answered sub-batches
FailedBatchRetriedPerItem ==
  \A j \in 1..BatchConcurrency :
    Job(j).pc \in {"write", "done"} =>
      /\ Len(Job(j).gaps) = Cardinality(BatchStarts(j))
      /\ \A i \in Job(j).failed :
           \A n \in 1..Len(BatchAt(j, i)) : BatchAt(j, i)[n] \in Job(j).tried
      /\ \A i \in BatchStarts(j) \ Job(j).failed :
           \A n \in 1..Len(BatchAt(j, i)) :
             \E m \in 1..Len(Job(j).results) : Job(j).results[m] = BatchAt(j, i)[n]

\* a job is over whose first sub-batch failed and whose second was answered
FailedBatchSurvived ==
  \E j \in 1..BatchConcurrency :
    /\ Job(j).pc = "done" /\ Job(j).failed = {0}
    /\ Len(Job(j).gaps) = 2
    /\ Cardinality(Job(j).tried) = BatchSize
    /\ \E m \in 1..Len(Job(j).results) : Job(j).results[m] = "a3"

\* C25: at most one sub-batch request is in flight at a time, and every
\* sub-batch request after the first of its call follows the delay,
\* whether the sub-batch before it was answered or failed
BatchRequestsSequentialAndSpaced ==
  /\ Cardinality({j \in 1..BatchConcurrency : Job(j).pc = "inflight"}) <= 1
  /\ \A j \in 1..BatchConcurrency :
       \A n \in 2..Len(Job(j).gaps) : Job(j).gaps[n] = "delay"

\* the two halves of C25, each on its own
OneBatchRequestInFlight ==
  Cardinality({j \in 1..BatchConcurrency : Job(j).pc = "inflight"}) <= 1

DelayBeforeEveryLaterBatch ==
  \A j \in 1..BatchConcurrency :
    \A n \in 2..Len(Job(j).gaps) : Job(j).gaps[n] = "delay"

\* the delay is kept after an answered sub-batch
DelayAfterAnsweredBatch ==
  \A j \in 1..BatchConcurrency :
    \A n \in 2..Len(Job(j).gaps) :
      ((n - 2) * BatchSize) \notin Job(j).failed => Job(j).gaps[n] = "delay"

\* C26: every chunk whose embedding was written holds the embedding of its
\* own text, also when items of a failed sub-batch could not be embedded
WrittenEmbeddingIsOwn ==
  \A j \in 1..BatchConcurrency :
    \A n \in 1..Len(Job(j).written) :
      Job(j).written[n].embeddingOf = Job(j).written[n].chunk

\* without a skipped item the pairing by index is right
WrittenOwnWhenNothingSkipped ==
  \A j \in 1..BatchConcurrency :
    (Job(j).pc = "done" /\ Len(Job(j).results) = Len(BatchTasks(j))) =>
      \A n \in 1..Len(Job(j).written) :
        Job(j).written[n].embeddingOf = Job(j).written[n].chunk


-----------------------------------------------------------------------------
(* The keys of the search cache                                             *)

KeyTexts == {"forklift safety", "dock safety", LongQuery}

\* limit and offset as the search route lets them through
KeyOptions ==
  [limit : {10, 20}, offset : {0, 20}, threshold : {0},
   filters : FilterChoices, rerank : {FALSE}]

KeyRequests == [query : KeyTexts, options : KeyOptions]

NoKey == [query |-> "", rest |-> <<>>]

InitKey ==
  /\ InitBackend /\ feedbackRows = <<>> /\ hook = NoHook
  /\ calc \in [fn : {"key"}, a : KeyRequests, b : KeyRequests, done : {FALSE},
               keyA : {NoKey}, keyB : {NoKey}]

\* search computes the key of each of the two requests
ComputeKeys ==
  /\ calc.fn = "key" /\ ~calc.done
  /\ calc' = [calc EXCEPT !.done = TRUE,
                          !.keyA = GetCacheKey(calc.a.query, calc.a.options),
                          !.keyB = GetCacheKey(calc.b.query, calc.b.options)]
  /\ UNCHANGED <<serviceVars, apiVars, wmlabVars, rerankVars, feedbackRows, hook>>

NextKey == ComputeKeys

SpecKey == InitKey /\ [][NextKey]_vars

\* query, limit, offset and filters of a request
KeyParts(r) == <<r.query, r.options.limit, r.options.offset, r.options.filters>>

\* C27: two requests that differ in query, limit, offset or filters have
\* different cache keys, whatever the length of the query
KeysSeparateRequests ==
  (calc.done /\ KeyParts(calc.a) # KeyParts(calc.b)) => calc.keyA # calc.keyB

\* the keys of requests whose query is short are apart
KeysSeparateShortQueries ==
  (/\ calc.done /\ KeyParts(calc.a) # KeyParts(calc.b)
   /\ calc.a.query # LongQuery /\ calc.b.query # LongQuery) => calc.keyA # calc.keyB


-----------------------------------------------------------------------------
(* useSearch: searches and loadMore side by side                            *)

\* C28: under every interleaving of search and loadMore the results of the
\* hook are results of one query: the page of a loadMore sent for an earlier
\* query is never appended to the results of a later search
ResultsOfOneQuery ==
  \A k, l \in 1..Len(hook.results) : hook.results[k].query = hook.results[l].query

\* a step in which the backend's answer to search request i arrives
BackendSearchArrived(i) ==
  /\ hook.requests[i].kind = "search" /\ hook.requests[i].status = "inflight"
  /\ Len(hook'.requests) = Len(hook.requests)
  /\ hook'.requests[i].delivered = "results"
  /\ hook'.totalCount = Len(hook'.results)

\* C29: after a search the backend has answered, hasMore is true exactly
\* when the backend holds matching results beyond the loaded ones, so that
\* with more than one page of matches loadMore can fetch the next page
HasMoreTellsOfFurtherResults ==
  [][\A i \in 1..Len(hook.requests) :
       BackendSearchArrived(i) =>
         (hook'.hasMore <=>
            TotalFor(hook.requests[i].query) >
              hook.requests[i].offset + Len(hook'.results))]_vars

\* what the hook does compute: totalCount against offset plus page length
HasMoreFromTotalCount ==
  [][\A i \in 1..Len(hook.requests) :
       (/\ hook.requests[i].kind = "search" /\ hook.requests[i].status = "inflight"
        /\ Len(hook'.requests) = Len(hook.requests)
        /\ hook'.requests[i].delivered = "results") =>
         (hook'.hasMore <=> hook'.totalCount > hook.offset + Len(hook'.results))]_vars

\* C30: a search called without an offset asks for offset 0, whatever
\* searches and loadMores came before it
SearchStartsAtOffsetZero ==
  \A i \in 1..Len(hook.requests) :
    hook.requests[i].kind = "search" => hook.requests[i].offset = 0

=============================================================================
